---- MODULE Spec2Model ----
(***************************************************************************)
(* Model of the movie_simulator narrative-state coordinator.               *)
(*                                                                         *)
(* Floats are fixed-point hundredths: 0.05 is 5, 1.0 is 100.  All metric   *)
(* arithmetic of the source is on multiples of 0.01, so the scaling loses  *)
(* nothing but binary rounding.                                            *)
(*                                                                         *)
(* An exception that escapes an operation is recorded in result as         *)
(* [exception |-> <type>]; a returned dict is a record with a success      *)
(* field; a returned bool b is [success |-> b].                            *)
(***************************************************************************)
EXTENDS Integers, Sequences, FiniteSets, TLC

VARIABLES
    story_state,      \* MovieContext.story_state (StoryState)
    current_scene,    \* MovieContext.current_scene (SceneContext or None)
    secrets,          \* CharacterProfile.secrets of every registered character
    memories,         \* MEMORY_SYSTEM.memories: owner -> list of MemoryEntry
    relationships,    \* MEMORY_SYSTEM.relationships: (from, to) -> score
    turn_history,     \* the TurnRecord log
    last_call,        \* the operation called last, with its arguments
    result,           \* what that call returned or raised
    ops,              \* number of operations called so far
    loop,             \* the coordinator loop: its counters and position
    event_log,        \* dramatic_tools.ACTIVE_EVENTS: the DramaticEvent log
    scene_manager,    \* SceneManagerAgent: current_scene, scene_history, the call
    scene_transitions,\* the SceneTransition log
    story_structure,  \* story_tools.STORY_STRUCTURE: its beats and current_beat
    story_memory      \* MemoryManager: whether a context is set, and memory

vars == <<story_state, current_scene, secrets, memories, relationships,
          turn_history, last_call, result, ops, loop, event_log,
          scene_manager, scene_transitions, story_memory,
            story_structure>>

----------------------------------------------------------------------------
(* Bounds of the model.                                                    *)

MaxOps == 3

----------------------------------------------------------------------------
(* Plain helpers.                                                          *)

Min(a, b) == IF a < b THEN a ELSE b

Max(a, b) == IF a > b THEN a ELSE b

InList(x, s) == \E i \in 1..Len(s) : s[i] = x

\* a removal that empties the list
RemoveEverything(s, x) == << >>

RECURSIVE FilterOut(_, _)
\* list.remove(x): the list without the first occurrence of x
FilterOut(s, x) ==
    IF s = << >> THEN << >>
    ELSE IF Head(s) = x THEN Tail(s)
    ELSE <<Head(s)>> \o FilterOut(Tail(s), x)

----------------------------------------------------------------------------
(* The entity registry: MovieContext.characters, fixed at setup.           *)

Registry == {"a", "b", "c"}

\* ids a caller can pass: the registered ones and one that is not
CharIds == Registry \cup {"x"}

\* Optional[...] = None
None == [none |-> TRUE]

InitialSecrets == [c \in Registry |-> IF c = "a" THEN <<"s1">> ELSE << >>]

----------------------------------------------------------------------------
(* StoryState and SceneContext.                                            *)

NewStoryState(g, beat) ==
    [genre |-> g, current_beat |-> beat, dramatic_tension |-> 50,
     setup_progress |-> 0, conflict_progress |-> 0,
     character_arc_progress |-> 0, resolution_readiness |-> 0,
     setting |-> << >>, timeline |-> << >>]

\* SceneContext.__post_init__: the ValueError it raises, or "ok"
SceneContextPostInit(location, present_characters) ==
    IF location = "" THEN "ValueError"
    ELSE IF present_characters = << >> THEN "ValueError"
    ELSE "ok"

----------------------------------------------------------------------------
(* scene_tools.start_new_scene                                             *)

\* a start that looks no id up in the registry
MissingCharactersNoCheck(present_characters) == << >>

RECURSIVE MissingCharacters(_)
\* [char_id for char_id in present_characters if char_id not in characters]
MissingCharacters(present_characters) ==
    IF present_characters = << >> THEN << >>
    ELSE (IF Head(present_characters) \notin Registry
          THEN <<Head(present_characters)>> ELSE << >>)
         \o MissingCharacters(Tail(present_characters))

\* any(obj in scene_objectives for obj in words): list membership of a word
AnyWordInList(words, scene_objectives) ==
    \E w \in words : InList(w, scene_objectives)

\* the story state after a scene with this target and these objectives starts
StartSceneStory(st, scene_objectives, target) ==
    LET s1 == [st EXCEPT !.dramatic_tension = target]
        s2 == IF AnyWordInList({"investigation", "interrogation", "search"},
                               scene_objectives)
              THEN [s1 EXCEPT !.conflict_progress = Min(100, @ + 20)]
              ELSE s1
    IN  IF AnyWordInList({"resolution", "confession", "reveal"}, scene_objectives)
        THEN [s2 EXCEPT !.resolution_readiness = Min(100, @ + 30)]
        ELSE s2

\* the start_new_scene calls tried: a valid one, each kind of invalid one,
\* each objective trigger, and tension targets in and out of [0, 1]
StartRequests ==
    LET R(loc, mood, present, objs, target) ==
            [location |-> loc, mood |-> mood, present_characters |-> present,
             scene_objectives |-> objs, target |-> target]
    IN  { R("office", "tense", <<"a", "b">>, <<"talk">>, 60),
          R("office", "odd", <<"a">>, <<"investigation">>, 80),
          R("office", "tense", <<"a", "b">>, <<"Begin investigation">>, 50),
          R("office", "calm", <<"b", "c">>, <<"confession", "talk">>, 70),
          R("office", "tense", <<"a", "b">>, << >>, 150),
          R("office", "tense", <<"a">>, << >>, -50),
          R("office", "tense", <<"b", "x">>, <<"investigation">>, 90),
          R("office", "tense", <<"x">>, <<"confession">>, 150),
          R("office", "tense", << >>, <<"talk">>, 60),
          R("", "tense", <<"a">>, <<"talk">>, 60) }

start_new_scene(scene_id, location, mood, present_characters, scene_objectives, target) ==
    /\ ops' = ops + 1
    /\ last_call' = [op |-> "start_new_scene", scene_id |-> scene_id,
                     location |-> location, mood |-> mood,
                     present_characters |-> present_characters,
                     scene_objectives |-> scene_objectives, target |-> target]
    /\ LET missing == MissingCharacters(present_characters) IN
       IF missing # << >>
       THEN /\ result' = [success |-> FALSE, error |-> "Characters not found",
                          missing |-> missing]
            /\ UNCHANGED <<story_state, current_scene>>
       ELSE IF SceneContextPostInit(location, present_characters) # "ok"
       THEN /\ result' = [exception |->
                            SceneContextPostInit(location, present_characters)]
            /\ UNCHANGED <<story_state, current_scene>>
       ELSE /\ current_scene' =
                 [location |-> location, mood |-> mood,
                  present_characters |-> present_characters,
                  scene_objectives |-> scene_objectives,
                  dramatic_tension_target |-> target]
            /\ story_state' = StartSceneStory(story_state, scene_objectives, target)
            /\ result' = [success |-> TRUE, scene_id |-> scene_id,
                          story_tension |-> story_state'.dramatic_tension]
    /\ UNCHANGED <<secrets, memories, relationships, turn_history>>

StartNewScene ==
    \E r \in StartRequests :
        start_new_scene("s", r.location, r.mood, r.present_characters,
                        r.scene_objectives, r.target)

----------------------------------------------------------------------------
(* scene_tools.manage_character_turn                                       *)
(* An Optional[str] argument left out is "": the source tests it by        *)
(* truthiness, which None and "" share.                                    *)

\* the checks of a turn without those on the target
TurnErrorNoTargetCheck(scene, character_id, target_character) ==
    IF scene = None THEN "No active scene"
    ELSE IF character_id \notin Registry THEN "Character not found"
    ELSE IF ~InList(character_id, scene.present_characters)
         THEN "Character not in current scene"
    ELSE ""

\* the error of the first failing check, "" when the turn is allowed
TurnError(scene, character_id, target_character) ==
    IF scene = None THEN "No active scene"
    ELSE IF character_id \notin Registry THEN "Character not found"
    ELSE IF ~InList(character_id, scene.present_characters)
         THEN "Character not in current scene"
    ELSE IF target_character # "" /\ target_character \notin Registry
         THEN "Target character not found"
    ELSE IF target_character # ""
            /\ ~InList(target_character, scene.present_characters)
         THEN "Target character not in scene"
    ELSE ""


\* a tension table whose "accusation" row is lost, so that it gets the default
TensionIncreaseNoAccusation(interaction_type) ==
    CASE interaction_type = "revelation" -> 25
      [] interaction_type = "confrontation" -> 30
      [] interaction_type = "confession" -> 40
      [] interaction_type = "dialogue" -> 5
      [] interaction_type = "investigation" -> 10
      [] OTHER -> 5

\* tension_updates.get(interaction_type, 0.05)
TensionIncrease(interaction_type) ==
    CASE interaction_type = "revelation" -> 25
      [] interaction_type = "confrontation" -> 30
      [] interaction_type = "accusation" -> 35
      [] interaction_type = "confession" -> 40
      [] interaction_type = "dialogue" -> 5
      [] interaction_type = "investigation" -> 10
      [] OTHER -> 5


\* coordinate_character_dialogue, as the specification and the tests of the
\* tool describe it: the error of the first failing presence check, "" when
\* the line of dialogue can be routed
DialogueError(scene, speaking_character, target_character) ==
    IF scene = None THEN "No active scene"
    ELSE IF ~InList(speaking_character, scene.present_characters)
         THEN "Character not in scene"
    ELSE IF target_character # ""
            /\ ~InList(target_character, scene.present_characters)
         THEN "Target character not in scene"
    ELSE ""

\* the tool validates and answers; it keeps no record and moves no metric
coordinate_character_dialogue(speaking_character, target_character) ==
    /\ ops' = ops + 1
    /\ last_call' = [op |-> "coordinate_character_dialogue",
                     speaking_character |-> speaking_character,
                     target_character |-> target_character]
    /\ LET error == DialogueError(current_scene, speaking_character,
                                  target_character) IN
       IF error # ""
       THEN result' = [success |-> FALSE, error |-> error]
       ELSE result' = [success |-> TRUE, speaker |-> speaking_character,
                       target |-> target_character,
                       present_characters |-> current_scene.present_characters]
    /\ UNCHANGED <<story_state, current_scene, secrets, memories,
                   relationships, turn_history>>

\* the coordinate_character_dialogue calls tried: <<speaker, target>>
CoordinateCharacterDialogue ==
    \E r \in { <<"a", "">>, <<"a", "b">>, <<"c", "">>, <<"x", "">>,
               <<"a", "x">>, <<"b", "c">> } :
        coordinate_character_dialogue(r[1], r[2])

\* the story state after a turn of this interaction type
TurnStory(st, interaction_type) ==
    LET s1 == [st EXCEPT !.dramatic_tension =
                            Min(100, @ + TensionIncrease(interaction_type))]
    IN  IF interaction_type \in {"revelation", "confrontation", "confession"}
        THEN [s1 EXCEPT !.character_arc_progress = Min(100, @ + 15)]
        ELSE s1

manage_character_turn(character_id, interaction_type, target_character) ==
    /\ ops' = ops + 1
    /\ last_call' = [op |-> "manage_character_turn",
                     character_id |-> character_id,
                     interaction_type |-> interaction_type,
                     target_character |-> target_character]
    /\ LET error == TurnError(current_scene, character_id, target_character) IN
       IF error # ""
       THEN /\ result' = [success |-> FALSE, error |-> error]
            /\ UNCHANGED story_state
       ELSE /\ story_state' = TurnStory(story_state, interaction_type)
            /\ result' = [success |-> TRUE, current_speaker |-> character_id,
                          target_character |-> target_character,
                          interaction_type |-> interaction_type,
                          story_tension |-> story_state'.dramatic_tension,
                          character_arc_progress |->
                              story_state'.character_arc_progress]
    \* the function keeps no turn log: nothing is appended to turn_history
    /\ UNCHANGED <<current_scene, secrets, memories, relationships, turn_history>>

\* the manage_character_turn calls tried: <<character, type, target>>
TurnRequests ==
    { <<"a", "dialogue", "">>, <<"b", "confession", "a">>,
      <<"a", "accusation", "b">>, <<"a", "questioning", "">>,
      <<"c", "dialogue", "">>, <<"x", "dialogue", "">>,
      <<"a", "confession", "x">>, <<"a", "revelation", "c">>,
      <<"a", "confrontation", "b">>, <<"b", "investigation", "">> }

ManageCharacterTurn ==
    \E r \in TurnRequests : manage_character_turn(r[1], r[2], r[3])

----------------------------------------------------------------------------
(* scene_tools.update_scene_context                                        *)

\* mood_tension: the mood -> tension table, -1 for a mood not in it
MoodTension(mood) ==
    CASE mood = "tense" -> 80
      [] mood = "dramatic" -> 90
      [] mood = "suspenseful" -> 85
      [] mood = "calm" -> 30
      [] mood = "peaceful" -> 20
      [] mood = "neutral" -> 50
      [] mood = "confrontational" -> 95
      [] mood = "mysterious" -> 70
      [] OTHER -> -1


\* an update that adds every listed id to the scene, registered or not
AddCharactersUnchecked(present, add_characters) == present \o add_characters

RECURSIVE AddCharacters(_, _)
\* for char_id in add_characters: append when registered and not yet present
AddCharacters(present, add_characters) ==
    IF add_characters = << >> THEN present
    ELSE LET c == Head(add_characters) IN
         AddCharacters(IF c \in Registry /\ ~InList(c, present)
                       THEN Append(present, c) ELSE present,
                       Tail(add_characters))

RECURSIVE RemoveCharacters(_, _)
\* for char_id in remove_characters: list.remove when present
RemoveCharacters(present, remove_characters) ==
    IF remove_characters = << >> THEN present
    ELSE RemoveCharacters(FilterOut(present, Head(remove_characters)),
                          Tail(remove_characters))

RECURSIVE AddObjectives(_, _)
\* for objective in add_objectives: append when not yet listed
AddObjectives(objectives, add_objectives) ==
    IF add_objectives = << >> THEN objectives
    ELSE LET o == Head(add_objectives) IN
         AddObjectives(IF InList(o, objectives) THEN objectives
                       ELSE Append(objectives, o),
                       Tail(add_objectives))

\* the scene after the partial update r
UpdatedScene(scene, r) ==
    [location |-> IF r.location # "" /\ r.location # scene.location
                  THEN r.location ELSE scene.location,
     mood |-> IF r.mood # "" /\ r.mood # scene.mood THEN r.mood ELSE scene.mood,
     present_characters |->
         RemoveCharacters(AddCharacters(scene.present_characters,
                                        r.add_characters),
                          r.remove_characters),
     scene_objectives |-> AddObjectives(scene.scene_objectives, r.add_objectives),
     dramatic_tension_target |->
         IF r.has_target THEN r.target ELSE scene.dramatic_tension_target]


\* an update that writes the target first and the mood's tension last
UpdatedTensionMoodLast(tension, scene, r) ==
    LET t1 == IF r.has_target THEN r.target ELSE tension
    IN  IF r.mood # "" /\ r.mood # scene.mood /\ MoodTension(r.mood) # -1
        THEN MoodTension(r.mood) ELSE t1

\* the tension after the partial update r: the mood table first, then the target
UpdatedTension(tension, scene, r) ==
    LET t1 == IF r.mood # "" /\ r.mood # scene.mood /\ MoodTension(r.mood) # -1
              THEN MoodTension(r.mood) ELSE tension
    IN  IF r.has_target THEN r.target ELSE t1

update_scene_context(r) ==
    /\ ops' = ops + 1
    /\ last_call' = [op |-> "update_scene_context", request |-> r]
    /\ IF current_scene = None
       THEN /\ result' = [success |-> FALSE, error |-> "No active scene to update"]
            /\ UNCHANGED <<story_state, current_scene>>
       ELSE /\ current_scene' = UpdatedScene(current_scene, r)
            /\ story_state' =
                 [story_state EXCEPT !.dramatic_tension =
                                        UpdatedTension(@, current_scene, r)]
            /\ result' = [success |-> TRUE,
                          story_tension |-> story_state'.dramatic_tension]
    /\ UNCHANGED <<secrets, memories, relationships, turn_history>>

\* the update_scene_context calls tried; has_target is "target is not None"
UpdateRequests ==
    LET U(loc, mood, add, remove, objs, has, target) ==
            [location |-> loc, mood |-> mood, add_characters |-> add,
             remove_characters |-> remove, add_objectives |-> objs,
             has_target |-> has, target |-> target]
    IN  { U("", "calm", << >>, << >>, << >>, FALSE, 0),
          U("", "odd", <<"c", "x">>, << >>, <<"reveal">>, FALSE, 0),
          U("lab", "", << >>, <<"a">>, << >>, FALSE, 0),
          U("", "", << >>, << >>, << >>, TRUE, 250),
          U("", "confrontational", << >>, << >>, << >>, TRUE, -20),
          U("", "peaceful", << >>, << >>, << >>, TRUE, 60) }

UpdateSceneContext == \E r \in UpdateRequests : update_scene_context(r)

----------------------------------------------------------------------------
(* scene_tools.end_current_scene                                           *)


\* an end of scene that applies the bumps whatever the completion status
EndSceneStoryAnyStatus(st, scene, completion_status) ==
    LET s1 == [st EXCEPT !.setup_progress = Min(100, @ + 30)]
    IN  IF scene.dramatic_tension_target >= 70
        THEN [s1 EXCEPT !.resolution_readiness = Min(100, @ + 20)]
        ELSE s1

\* the story state after the scene ends with this completion status
EndSceneStory(st, scene, completion_status) ==
    IF completion_status = "complete"
    THEN LET s1 == [st EXCEPT !.setup_progress = Min(100, @ + 30)]
         IN  IF scene.dramatic_tension_target >= 70
             THEN [s1 EXCEPT !.resolution_readiness = Min(100, @ + 20)]
             ELSE s1
    ELSE st

end_current_scene(reason, completion_status) ==
    /\ ops' = ops + 1
    /\ last_call' = [op |-> "end_current_scene", reason |-> reason,
                     completion_status |-> completion_status]
    /\ IF current_scene = None
       THEN /\ result' = [success |-> FALSE, error |-> "No active scene to end"]
            /\ UNCHANGED <<story_state, current_scene>>
       ELSE /\ story_state' =
                 EndSceneStory(story_state, current_scene, completion_status)
            /\ current_scene' = None
            /\ result' = [success |-> TRUE, scene_ended |-> TRUE,
                          completion_status |-> completion_status,
                          final_tension |-> story_state'.dramatic_tension]
    /\ UNCHANGED <<secrets, memories, relationships, turn_history>>

EndCurrentScene ==
    \E completion_status \in {"complete", "interrupted"} :
        end_current_scene("done", completion_status)

----------------------------------------------------------------------------
(* The memory and relationship store (MEMORY_SYSTEM, store_character_memory*)
(* of memory_tools).  A store ms is [memories, relationships].             *)

Clamp(lo, hi, v) == Max(lo, Min(hi, v))

\* the score of the directed pair, neutral when the pair was never stored
RelationshipScore(rel, a, b) ==
    IF <<a, b>> \in DOMAIN rel THEN rel[<<a, b>>] ELSE 0

\* an update that adds and does not clamp
UpdateRelationshipUnclamped(rel, a, b, change) ==
    [p \in DOMAIN rel \cup {<<a, b>>} |->
        IF p = <<a, b>> THEN RelationshipScore(rel, a, b) + change ELSE rel[p]]

\* MEMORY_SYSTEM.update_relationship: add and clamp to [-1, 1]
UpdateRelationship(rel, a, b, change) ==
    [p \in DOMAIN rel \cup {<<a, b>>} |->
        IF p = <<a, b>>
        THEN Clamp(-100, 100, RelationshipScore(rel, a, b) + change)
        ELSE rel[p]]

RECURSIVE UpdateTowardsParticipants(_, _, _, _)
\* the owner's score towards every other participant moves by change
UpdateTowardsParticipants(rel, owner, participants, change) ==
    IF participants = << >> THEN rel
    ELSE UpdateTowardsParticipants(
             IF Head(participants) # owner
             THEN UpdateRelationship(rel, owner, Head(participants), change)
             ELSE rel,
             owner, Tail(participants), change)

\* store_character_memory / MEMORY_SYSTEM.store_memory
StoreMemory(ms, owner, content, participants, emotional_impact, memory_type) ==
    [memories |->
        [ms.memories EXCEPT ![owner] =
            Append(@, [content |-> content, participants |-> participants,
                       emotional_impact |-> Clamp(0, 100, emotional_impact),
                       memory_type |-> memory_type])],
     relationships |->
        IF Len(participants) > 1
        THEN UpdateTowardsParticipants(ms.relationships, owner, participants,
                                       IF emotional_impact > 50 THEN 10 ELSE -5)
        ELSE ms.relationships]

Store == [memories |-> memories, relationships |-> relationships]

SetStore(ms) ==
    /\ memories' = ms.memories
    /\ relationships' = ms.relationships

----------------------------------------------------------------------------
(* character_tools.reveal_character_secret                                 *)

RECURSIVE RememberRevelation(_, _, _, _)
\* for char_id in present_chars: every registered one stores the revelation
RememberRevelation(ms, rest, present_chars, character_id) ==
    IF rest = << >> THEN ms
    ELSE LET c == Head(rest) IN
         RememberRevelation(
             IF c \in Registry
             THEN StoreMemory(ms, c,
                              IF c # character_id THEN "revealed"
                              ELSE "I revealed my secret",
                              present_chars,
                              IF c = character_id THEN 90 ELSE 80, "revelation")
             ELSE ms,
             Tail(rest), present_chars, character_id)

\* the store after the revelation's memories are written
RevelationStore(ms, scene, character_id, revelation_type, target_character) ==
    LET present_chars == IF scene # None THEN scene.present_characters
                         ELSE <<character_id>>
    IN  IF revelation_type = "public"
        THEN RememberRevelation(ms, present_chars, present_chars, character_id)
        ELSE IF revelation_type = "private" /\ target_character # ""
                /\ target_character \in Registry
        THEN StoreMemory(
                 StoreMemory(ms, character_id, "I told my secret",
                             <<character_id, target_character>>, 80,
                             "private_revelation"),
                 target_character, "revealed to me",
                 <<character_id, target_character>>, 90, "secret_learned")
        ELSE ms

\* the validation of reveal_character_secret: its error, "" when it passes
RevealError(character_id, secret) ==
    IF character_id \notin Registry THEN "Character not found"
    ELSE IF ~InList(secret, secrets[character_id])
         THEN "Character doesn't have secret"
    ELSE ""

reveal_character_secret(character_id, secret, revelation_type, target_character) ==
    /\ ops' = ops + 1
    /\ last_call' = [op |-> "reveal_character_secret",
                     character_id |-> character_id, secret |-> secret,
                     revelation_type |-> revelation_type,
                     target_character |-> target_character]
    /\ LET error == RevealError(character_id, secret) IN
       IF error # ""
       THEN /\ result' = [success |-> FALSE, error |-> error]
            /\ UNCHANGED <<story_state, secrets, memories, relationships>>
       ELSE /\ story_state' =
                 [story_state EXCEPT !.dramatic_tension =
                     Min(100, @ + (IF revelation_type = "public" THEN 30 ELSE 15))]
            /\ secrets' = [secrets EXCEPT ![character_id] = FilterOut(@, secret)]
            /\ SetStore(RevelationStore(Store, current_scene, character_id,
                                        revelation_type, target_character))
            /\ result' = [success |-> TRUE, secret_revealed |-> secret,
                          new_tension |-> story_state'.dramatic_tension]
    /\ UNCHANGED <<current_scene, turn_history>>

\* the calls tried: <<character, secret, revelation type, target>>
RevealRequests ==
    { <<"a", "s1", "public", "">>, <<"a", "s1", "private", "b">>,
      <<"a", "s1", "private", "x">>, <<"a", "s9", "public", "">>,
      <<"x", "s1", "public", "">> }

RevealCharacterSecret ==
    \E r \in RevealRequests : reveal_character_secret(r[1], r[2], r[3], r[4])

----------------------------------------------------------------------------
(* character_tools.express_emotion                                         *)

\* the validation of express_emotion: its error, "" when it passes
EmotionError(character_id, target_character) ==
    IF character_id \notin Registry THEN "Character not found"
    ELSE IF target_character # "" /\ target_character \notin Registry
         THEN "Target character not found"
    ELSE ""

\* intensity * 0.15 for the dark emotions, intensity * 0.05 for the others
EmotionTension(emotion, intensity) ==
    IF emotion \in {"anger", "fear", "sadness", "despair"}
    THEN (intensity * 15) \div 100
    ELSE (intensity * 5) \div 100

\* the store after the emotion and its observation are written
EmotionStore(ms, scene, character_id, intensity, target_character) ==
    LET participants == IF target_character # ""
                        THEN <<character_id, target_character>>
                        ELSE <<character_id>>
        m1 == StoreMemory(ms, character_id, "I felt", participants, intensity,
                          "emotion")
    IN  IF target_character # "" /\ scene # None
           /\ InList(target_character, scene.present_characters)
        THEN StoreMemory(m1, target_character, "showed emotion toward me",
                         participants, (intensity * 70) \div 100, "observation")
        ELSE m1

express_emotion(character_id, emotion, intensity_arg, target_character) ==
    /\ ops' = ops + 1
    /\ last_call' = [op |-> "express_emotion", character_id |-> character_id,
                     emotion |-> emotion, intensity |-> intensity_arg,
                     target_character |-> target_character]
    /\ LET error == EmotionError(character_id, target_character)
           intensity == Max(0, Min(100, intensity_arg))
       IN
       IF error # ""
       THEN /\ result' = [success |-> FALSE, error |-> error]
            /\ UNCHANGED <<story_state, memories, relationships>>
       ELSE /\ story_state' =
                 [story_state EXCEPT !.dramatic_tension =
                     Min(100, @ + EmotionTension(emotion, intensity))]
            /\ SetStore(EmotionStore(Store, current_scene, character_id,
                                     intensity, target_character))
            /\ result' = [success |-> TRUE, intensity |-> intensity,
                          new_tension |-> story_state'.dramatic_tension]
    /\ UNCHANGED <<current_scene, secrets, turn_history>>

\* the calls tried: <<character, emotion, intensity, target>>
EmotionRequests ==
    { <<"a", "anger", 60, "">>, <<"a", "joy", 100, "b">>,
      <<"b", "fear", 140, "a">>, <<"a", "sadness", -20, "c">>,
      <<"x", "anger", 60, "">>, <<"a", "anger", 60, "x">> }

ExpressEmotion ==
    \E r \in EmotionRequests : express_emotion(r[1], r[2], r[3], r[4])

----------------------------------------------------------------------------
(* character_tools.take_character_action                                   *)

\* the validation of take_character_action: its error, "" when it passes;
\* the target test is "target in characters and target not in characters"
ActionError(character_id, target) ==
    IF character_id \notin Registry THEN "Character not found"
    ELSE IF target # "" /\ target \in Registry /\ target \notin Registry
         THEN "Target character not found"
    ELSE ""

\* the story state after an action of this type
ActionStory(st, action_type) ==
    IF action_type = "investigative"
    THEN [st EXCEPT !.conflict_progress = Min(100, @ + 10)]
    ELSE IF action_type = "confrontational"
    THEN [st EXCEPT !.dramatic_tension = Min(100, @ + 20)]
    ELSE st

\* the store after the action and its observation are written
ActionStore(ms, character_id, target) ==
    LET participants == IF target # "" /\ target \in Registry
                        THEN <<character_id, target>> ELSE <<character_id>>
        m1 == StoreMemory(ms, character_id, "I acted", participants, 50, "action")
    IN  IF target # "" /\ target \in Registry
        THEN StoreMemory(m1, target, "acted targeting me", participants, 40,
                         "observation")
        ELSE m1

take_character_action(character_id, action_type, target) ==
    /\ ops' = ops + 1
    /\ last_call' = [op |-> "take_character_action",
                     character_id |-> character_id,
                     action_type |-> action_type, target |-> target]
    /\ LET error == ActionError(character_id, target) IN
       IF error # ""
       THEN /\ result' = [success |-> FALSE, error |-> error]
            /\ UNCHANGED <<story_state, memories, relationships>>
       ELSE /\ story_state' = ActionStory(story_state, action_type)
            /\ SetStore(ActionStore(Store, character_id, target))
            /\ result' = [success |-> TRUE, target |-> target,
                          story_tension |-> story_state'.dramatic_tension,
                          conflict_progress |-> story_state'.conflict_progress]
    /\ UNCHANGED <<current_scene, secrets, turn_history>>

\* the calls tried: <<character, action type, target>>
ActionRequests ==
    { <<"a", "investigative", "">>, <<"a", "confrontational", "b">>,
      <<"b", "social", "x">>, <<"x", "social", "">> }

TakeCharacterAction ==
    \E r \in ActionRequests : take_character_action(r[1], r[2], r[3])

----------------------------------------------------------------------------
(* character_tools.update_character_relationship                           *)

\* the validation of update_character_relationship
RelationshipError(character_id, other_character_id) ==
    IF character_id \notin Registry THEN "Character not found"
    ELSE IF other_character_id \notin Registry THEN "Character not found"
    ELSE ""

\* abs(opinion_change)
Abs(v) == IF v < 0 THEN -v ELSE v


\* a direct update that moves the score of the reverse pair as well
RelationshipStoreBothWays(ms, character_id, other_character_id, opinion_change) ==
    StoreMemory([ms EXCEPT !.relationships =
                     UpdateRelationship(
                         UpdateRelationship(@, character_id, other_character_id,
                                            opinion_change),
                         other_character_id, character_id, opinion_change)],
                character_id, "My opinion changed",
                <<character_id, other_character_id>>, Abs(opinion_change),
                "relationship")

\* the store after the direct update and the memory of it
RelationshipStore(ms, character_id, other_character_id, opinion_change) ==
    StoreMemory([ms EXCEPT !.relationships =
                     UpdateRelationship(@, character_id, other_character_id,
                                        opinion_change)],
                character_id, "My opinion changed",
                <<character_id, other_character_id>>, Abs(opinion_change),
                "relationship")

update_character_relationship(character_id, other_character_id, opinion_change) ==
    /\ ops' = ops + 1
    /\ last_call' = [op |-> "update_character_relationship",
                     character_id |-> character_id,
                     other_character_id |-> other_character_id,
                     opinion_change |-> opinion_change]
    /\ LET error == RelationshipError(character_id, other_character_id) IN
       IF error # ""
       THEN /\ result' = [success |-> FALSE, error |-> error]
            /\ UNCHANGED <<memories, relationships>>
       ELSE /\ SetStore(RelationshipStore(Store, character_id,
                                          other_character_id, opinion_change))
            \* relationships.get(other_character_id, 0.0)
            /\ result' = [success |-> TRUE,
                          new_relationship_score |->
                              RelationshipScore(relationships', character_id,
                                                other_character_id)]
    /\ UNCHANGED <<story_state, current_scene, secrets, turn_history>>

\* the calls tried: <<character, other character, opinion change>>
RelationshipRequests ==
    { <<"a", "b", 50>>, <<"a", "b", -300>>, <<"b", "a", 300>>,
      <<"x", "a", 50>>, <<"a", "x", 50>> }

UpdateCharacterRelationship ==
    \E r \in RelationshipRequests :
        update_character_relationship(r[1], r[2], r[3])

----------------------------------------------------------------------------
(* progression_tools.StoryProgressionManager, with its context set         *)
(* (simulation.py: setup_simulation calls set_context).                    *)

Genres == {"mystery", "romance", "thriller", "comedy"}

default_progression ==
    <<"setup", "inciting_incident", "first_plot_point", "rising_action",
      "midpoint", "second_plot_point", "climax", "resolution">>


\* a progression table whose lists hold "falling_action" before "resolution"
ProgressionWithFallingAction(g) ==
    <<"setup", "inciting_incident", "first_plot_point", "rising_action",
      "midpoint", "second_plot_point", "climax", "falling_action", "resolution">>

\* genre_progressions.get(genre, default_progression), as beat names
get_story_progression(g) ==
    CASE g = "mystery" ->
           <<"setup", "inciting_incident", "first_plot_point", "rising_action",
             "midpoint", "second_plot_point", "climax", "resolution">>
      [] g = "romance" ->
           <<"setup", "inciting_incident", "first_plot_point", "rising_action",
             "midpoint", "second_plot_point", "climax", "resolution">>
      [] g = "thriller" ->
           <<"setup", "inciting_incident", "first_plot_point", "rising_action",
             "midpoint", "second_plot_point", "climax", "resolution">>
      [] OTHER -> default_progression

\* list.index(x) (1-based), for x in the list
IndexOf(s, x) == CHOOSE i \in 1..Len(s) : s[i] = x /\ \A j \in 1..(i - 1) : s[j] # x

\* an advance that succeeds on the final beat and stays there
NextBeatRepeating(progression, current_beat) ==
    IF ~InList(current_beat, progression)
    THEN [ok |-> TRUE, beat |-> progression[1]]
    ELSE [ok |-> TRUE,
          beat |-> progression[Min(IndexOf(progression, current_beat) + 1,
                                   Len(progression))]]

\* an advance that goes from the final beat back to the first
NextBeatWrapping(progression, current_beat) ==
    IF ~InList(current_beat, progression)
    THEN [ok |-> TRUE, beat |-> progression[1]]
    ELSE [ok |-> TRUE,
          beat |-> progression[(IndexOf(progression, current_beat) % Len(progression)) + 1]]


\* an advance that leaves a beat it does not know where it is
NextBeatKeepingUnknown(progression, current_beat) ==
    IF ~InList(current_beat, progression)
    THEN [ok |-> TRUE, beat |-> current_beat]
    ELSE IF IndexOf(progression, current_beat) >= Len(progression)
    THEN [ok |-> FALSE, beat |-> current_beat]
    ELSE [ok |-> TRUE, beat |-> progression[IndexOf(progression, current_beat) + 1]]

\* the beat advance_story_beat moves to; ok is FALSE at the final beat
NextBeat(progression, current_beat) ==
    IF ~InList(current_beat, progression)
    THEN [ok |-> TRUE, beat |-> progression[1]]
    ELSE IF IndexOf(progression, current_beat) >= Len(progression)
    THEN [ok |-> FALSE, beat |-> current_beat]
    ELSE [ok |-> TRUE, beat |-> progression[IndexOf(progression, current_beat) + 1]]


\* a table that writes all four metrics: 0.0 for those its row does not name
UpdateProgressionMetricsAllFour(st, beat) ==
    LET z == [st EXCEPT !.setup_progress = 0, !.conflict_progress = 0,
                        !.character_arc_progress = 0,
                        !.resolution_readiness = 0]
    IN  CASE beat = "setup" ->
               [z EXCEPT !.setup_progress = 80, !.conflict_progress = 10]
          [] beat = "inciting_incident" ->
               [z EXCEPT !.setup_progress = 100, !.conflict_progress = 30]
          [] beat = "first_plot_point" ->
               [z EXCEPT !.conflict_progress = 50, !.character_arc_progress = 20]
          [] beat = "rising_action" ->
               [z EXCEPT !.conflict_progress = 70, !.character_arc_progress = 40]
          [] beat = "midpoint" ->
               [z EXCEPT !.conflict_progress = 80, !.character_arc_progress = 60]
          [] beat = "second_plot_point" ->
               [z EXCEPT !.conflict_progress = 90, !.character_arc_progress = 80]
          [] beat = "climax" ->
               [z EXCEPT !.conflict_progress = 100, !.character_arc_progress = 90,
                         !.resolution_readiness = 80]
          [] beat = "falling_action" -> [z EXCEPT !.resolution_readiness = 90]
          [] beat = "resolution" -> [z EXCEPT !.resolution_readiness = 100]
          [] OTHER -> st

\* _update_progression_metrics: the absolute values of the beat's table row
UpdateProgressionMetrics(st, beat) ==
    CASE beat = "setup" ->
           [st EXCEPT !.setup_progress = 80, !.conflict_progress = 10]
      [] beat = "inciting_incident" ->
           [st EXCEPT !.setup_progress = 100, !.conflict_progress = 30]
      [] beat = "first_plot_point" ->
           [st EXCEPT !.conflict_progress = 50, !.character_arc_progress = 20]
      [] beat = "rising_action" ->
           [st EXCEPT !.conflict_progress = 70, !.character_arc_progress = 40]
      [] beat = "midpoint" ->
           [st EXCEPT !.conflict_progress = 80, !.character_arc_progress = 60]
      [] beat = "second_plot_point" ->
           [st EXCEPT !.conflict_progress = 90, !.character_arc_progress = 80]
      [] beat = "climax" ->
           [st EXCEPT !.conflict_progress = 100, !.character_arc_progress = 90,
                      !.resolution_readiness = 80]
      [] beat = "falling_action" -> [st EXCEPT !.resolution_readiness = 90]
      [] beat = "resolution" -> [st EXCEPT !.resolution_readiness = 100]
      [] OTHER -> st

advance_story_beat ==
    /\ ops' = ops + 1
    /\ last_call' = [op |-> "advance_story_beat"]
    /\ LET next == NextBeat(get_story_progression(story_state.genre),
                            story_state.current_beat)
       IN  IF next.ok
           THEN /\ story_state' =
                     UpdateProgressionMetrics(
                         [story_state EXCEPT !.current_beat = next.beat],
                         next.beat)
                /\ result' = [success |-> TRUE]
           ELSE /\ result' = [success |-> FALSE]
                /\ UNCHANGED story_state
    /\ UNCHANGED <<current_scene, secrets, memories, relationships, turn_history>>

set_story_beat(beat) ==
    /\ ops' = ops + 1
    /\ last_call' = [op |-> "set_story_beat", beat |-> beat]
    /\ IF ~InList(beat, get_story_progression(story_state.genre))
       THEN /\ result' = [success |-> FALSE]
            /\ UNCHANGED story_state
       ELSE /\ story_state' =
                 UpdateProgressionMetrics(
                     [story_state EXCEPT !.current_beat = beat], beat)
            /\ result' = [success |-> TRUE]
    /\ UNCHANGED <<current_scene, secrets, memories, relationships, turn_history>>

SetStoryBeat ==
    \E beat \in {"setup", "second_plot_point", "climax", "resolution",
                 "falling_action", "finale"} :
        set_story_beat(beat)

adjust_dramatic_tension(change) ==
    /\ ops' = ops + 1
    /\ last_call' = [op |-> "adjust_dramatic_tension", change |-> change]
    /\ story_state' = [story_state EXCEPT !.dramatic_tension =
                                             Max(0, Min(100, @ + change))]
    /\ result' = [success |-> TRUE]
    /\ UNCHANGED <<current_scene, secrets, memories, relationships, turn_history>>

AdjustDramaticTension ==
    \E change \in {-1000, -20, 30, 1000} : adjust_dramatic_tension(change)


\* a set_dramatic_tension that clamps the value instead of refusing it
SetTensionClamped(st, tension) ==
    [ok |-> TRUE, story |-> [st EXCEPT !.dramatic_tension = Max(0, Min(100, tension))]]

\* set_dramatic_tension: the value is refused when it is outside [0, 1]
SetTension(st, tension) ==
    IF ~(0 <= tension /\ tension <= 100)
    THEN [ok |-> FALSE, story |-> st]
    ELSE [ok |-> TRUE, story |-> [st EXCEPT !.dramatic_tension = tension]]

set_dramatic_tension(tension) ==
    /\ ops' = ops + 1
    /\ last_call' = [op |-> "set_dramatic_tension", tension |-> tension]
    /\ story_state' = SetTension(story_state, tension).story
    /\ result' = [success |-> SetTension(story_state, tension).ok]
    /\ UNCHANGED <<current_scene, secrets, memories, relationships, turn_history>>

SetDramaticTension ==
    \E tension \in {-10, 0, 45, 75, 100, 150} : set_dramatic_tension(tension)

\* get_recommended_tension_range: <<min, max>> of the current beat
get_recommended_tension_range(beat) ==
    CASE beat = "setup" -> <<10, 30>>
      [] beat = "inciting_incident" -> <<30, 50>>
      [] beat = "first_plot_point" -> <<40, 60>>
      [] beat = "rising_action" -> <<50, 70>>
      [] beat = "midpoint" -> <<60, 80>>
      [] beat = "second_plot_point" -> <<70, 90>>
      [] beat = "climax" -> <<80, 100>>
      [] beat = "falling_action" -> <<40, 60>>
      [] beat = "resolution" -> <<10, 30>>
      [] OTHER -> <<30, 70>>


\* an auto-adjustment that corrects a tension below the band only
auto_adjust_tension_below_only ==
    /\ ops' = ops + 1
    /\ last_call' = [op |-> "auto_adjust_tension_for_beat"]
    /\ LET range == get_recommended_tension_range(story_state.current_beat)
           current_tension == story_state.dramatic_tension
           target_tension == (range[1] + range[2]) \div 2
       IN  IF current_tension < range[1]
           THEN /\ story_state' = SetTension(story_state, target_tension).story
                /\ result' = [success |-> SetTension(story_state, target_tension).ok]
           ELSE /\ result' = [success |-> TRUE]
                /\ UNCHANGED story_state
    /\ UNCHANGED <<current_scene, secrets, memories, relationships, turn_history>>

auto_adjust_tension_for_beat ==
    /\ ops' = ops + 1
    /\ last_call' = [op |-> "auto_adjust_tension_for_beat"]
    /\ LET range == get_recommended_tension_range(story_state.current_beat)
           current_tension == story_state.dramatic_tension
           target_tension == (range[1] + range[2]) \div 2
       IN  IF current_tension < range[1] \/ current_tension > range[2]
           THEN /\ story_state' = SetTension(story_state, target_tension).story
                /\ result' = [success |-> SetTension(story_state, target_tension).ok]
           ELSE /\ result' = [success |-> TRUE]
                /\ UNCHANGED story_state
    /\ UNCHANGED <<current_scene, secrets, memories, relationships, turn_history>>

\* update_character_arc_progress: the mean over the registry, 0.5 for the others
update_character_arc_progress(character_id, progress) ==
    /\ ops' = ops + 1
    /\ last_call' = [op |-> "update_character_arc_progress",
                     character_id |-> character_id, progress |-> progress]
    /\ IF character_id \notin Registry \/ ~(0 <= progress /\ progress <= 100)
       THEN /\ result' = [success |-> FALSE]
            /\ UNCHANGED story_state
       ELSE /\ story_state' =
                 [story_state EXCEPT !.character_arc_progress =
                     (progress + 50 * (Cardinality(Registry) - 1))
                         \div Cardinality(Registry)]
            /\ result' = [success |-> TRUE]
    /\ UNCHANGED <<current_scene, secrets, memories, relationships, turn_history>>

UpdateCharacterArcProgress ==
    \E r \in { <<"a", 20>>, <<"b", 80>>, <<"x", 20>>, <<"a", 170>> } :
        update_character_arc_progress(r[1], r[2])

----------------------------------------------------------------------------
(* story_models.MovieContext.update_dramatic_tension                       *)

update_dramatic_tension(new_tension) ==
    /\ ops' = ops + 1
    /\ last_call' = [op |-> "update_dramatic_tension",
                     new_tension |-> new_tension]
    /\ IF ~(0 <= new_tension /\ new_tension <= 100)
       THEN /\ result' = [exception |-> "ValueError"]
            /\ UNCHANGED story_state
       ELSE /\ story_state' = [story_state EXCEPT !.dramatic_tension = new_tension]
            /\ result' = [success |-> TRUE]
    /\ UNCHANGED <<current_scene, secrets, memories, relationships, turn_history>>

UpdateDramaticTension ==
    \E new_tension \in {-10, 35, 150} : update_dramatic_tension(new_tension)

----------------------------------------------------------------------------
(* director.check_story_progress                                           *)

check_story_progress(current_beat, dramatic_tension) ==
    /\ ops' = ops + 1
    /\ last_call' = [op |-> "check_story_progress",
                     current_beat |-> current_beat,
                     dramatic_tension |-> dramatic_tension]
    /\ story_state' = [story_state EXCEPT
                          !.current_beat = current_beat,
                          !.dramatic_tension = Max(0, Min(100, dramatic_tension))]
    /\ result' = [success |-> TRUE]
    /\ UNCHANGED <<current_scene, secrets, memories, relationships, turn_history>>

CheckStoryProgress ==
    \E r \in { <<"climax", 90>>, <<"act two", 500>>, <<"midpoint", -40>> } :
        check_story_progress(r[1], r[2])

----------------------------------------------------------------------------
(* event_tools.DramaticEventInjector.inject_random_event                   *)

EventTypes ==
    {"plot_twist", "character_revelation", "conflict_escalation", "betrayal",
     "romantic_complication", "mysterious_occurrence", "deadline_pressure",
     "moral_dilemma", "unexpected_ally", "major_setback"}

\* _get_suitable_event_types
SuitableEventTypes(beat, tension) ==
    LET by_beat ==
            IF beat \in {"setup", "inciting_incident"}
            THEN {"character_revelation", "mysterious_occurrence"}
            ELSE IF beat \in {"rising_action", "midpoint"}
            THEN {"conflict_escalation", "betrayal", "plot_twist"}
            ELSE IF beat \in {"second_plot_point", "climax"}
            THEN {"major_setback", "betrayal", "plot_twist"}
            ELSE {}
        by_tension ==
            IF tension < 40 THEN {"conflict_escalation", "mysterious_occurrence"}
            ELSE IF tension > 70 THEN {"moral_dilemma", "unexpected_ally"}
            ELSE {}
    IN  IF by_beat \cup by_tension # {} THEN by_beat \cup by_tension
        ELSE EventTypes

\* _calculate_tension_change: the ends of the type's random.uniform range
TensionChanges(event_type) ==
    CASE event_type = "plot_twist" -> {20, 40}
      [] event_type = "character_revelation" -> {10, 30}
      [] event_type = "conflict_escalation" -> {30, 50}
      [] event_type = "betrayal" -> {40, 60}
      [] event_type = "romantic_complication" -> {10, 30}
      [] event_type = "mysterious_occurrence" -> {20, 40}
      [] event_type = "deadline_pressure" -> {40, 60}
      [] event_type = "moral_dilemma" -> {10, 30}
      [] event_type = "unexpected_ally" -> {-20, 10}
      [] event_type = "major_setback" -> {30, 50}
      [] OTHER -> {10, 30}

\* event_type "" is the argument left out; the injector returns event_info
\* and keeps no log of it: nothing is appended to event_log
inject_random_event(event_type) ==
    /\ ops' = ops + 1
    /\ last_call' = [op |-> "inject_random_event", event_type |-> event_type]
    /\ IF event_type # "" /\ event_type \notin EventTypes
       THEN /\ result' = [success |-> FALSE, error |-> "Invalid event type"]
            /\ UNCHANGED story_state
       ELSE \E selected_type \in
                  (IF event_type # "" THEN {event_type}
                   ELSE SuitableEventTypes(story_state.current_beat,
                                           story_state.dramatic_tension)) :
              \E tension_change \in TensionChanges(selected_type) :
                 /\ story_state' =
                      [story_state EXCEPT !.dramatic_tension =
                          Max(0, Min(100, @ + tension_change))]
                 /\ result' = [success |-> TRUE, event_type |-> selected_type,
                               tension_change |-> tension_change,
                               new_tension |-> story_state'.dramatic_tension]
    /\ UNCHANGED <<current_scene, secrets, memories, relationships, turn_history>>

InjectRandomEvent ==
    \E event_type \in {"", "betrayal", "unexpected_ally", "earthquake"} :
        inject_random_event(event_type)

----------------------------------------------------------------------------
(* The coordinator loops: MovieSimulation.run_autonomous_storytelling_loop *)
(* and AutonomousStorytellingEngine's interaction loop.  One action is one *)
(* evaluation of the while test together with the body it guards.          *)

DefaultMaxInteractions == 50
EngineMaxInteractions == 25
EventInterval == 10
DetectiveLeadTurns == 5
RotationTurns == 15
ConclusionTurns == 15
RecentResponses == 3

\* stop: the exit the loop left by; response, failed: the kind of the last
\* response and whether the generator call behind it raised; has_ai: whether
\* the character agents hold an AI agent; since_indicator: how many responses
\* ago the last conclusion indicator was said (RecentResponses: none recent)
IdleLoop ==
    [coordinator |-> "none", pc |-> "idle", stop |-> "", max_interactions |-> 0,
     interaction_count |-> 0, iterations |-> 0, generator_calls |-> 0,
     story_events |-> 0, agents |-> {}, last_action |-> "None",
     active_char_id |-> "", has_ai |-> FALSE, response |-> "", failed |-> FALSE,
     since_indicator |-> RecentResponses]

\* MovieSimulation._check_story_completion
check_story_completion(st) ==
    \/ st.resolution_readiness >= 90
    \/ /\ st.setup_progress >= 90
       /\ st.conflict_progress >= 80
       /\ st.character_arc_progress >= 70

\* a handler that continues without counting the iteration
LoopErrorNoCount(l) == l

\* the except handler of the simulation loop
LoopError(l) == [l EXCEPT !.interaction_count = @ + 1]

\* the story after inject_random_event() with the type left to the injector
InjectedStories(st) ==
    { [st EXCEPT !.dramatic_tension = Max(0, Min(100, @ + tension_change))] :
        tension_change \in
          UNION { TensionChanges(t) :
                    t \in SuitableEventTypes(st.current_beat, st.dramatic_tension) } }

SimulationLoopStep ==
    /\ loop.coordinator = "simulation"
    /\ loop.pc = "loop"
    /\ IF ~(loop.interaction_count < loop.max_interactions)
       THEN /\ loop' = [loop EXCEPT !.pc = "done", !.stop = "budget"]
            /\ UNCHANGED story_state
       ELSE LET l == [loop EXCEPT !.iterations = @ + 1, !.failed = FALSE,
                                  !.response = ""]
            IN  IF check_story_completion(story_state)
                THEN /\ loop' = [l EXCEPT !.pc = "done", !.stop = "completion"]
                     /\ UNCHANGED story_state
                ELSE IF l.agents = {}
                THEN /\ loop' = [l EXCEPT !.pc = "done", !.stop = "no_agents"]
                     /\ UNCHANGED story_state
                ELSE IF l.last_action = "None"
                THEN \* interaction_count - None raises TypeError
                     /\ loop' = LoopError(l)
                     /\ UNCHANGED story_state
                ELSE \* reached only with every last_action set, which only this
                     \* branch does
                     \E selected_char \in l.agents :
                       \E outcome \in {"raises", "returns"} :
                         IF outcome = "raises"
                         THEN /\ loop' = LoopError([l EXCEPT !.generator_calls = @ + 1,
                                                             !.failed = TRUE,
                                                             !.active_char_id = selected_char])
                              /\ UNCHANGED story_state
                         ELSE /\ loop' = [l EXCEPT !.generator_calls = @ + 1,
                                                   !.response = "generated",
                                                   !.active_char_id = selected_char,
                                                   !.interaction_count = @ + 1]
                              /\ IF (l.interaction_count + 1) % EventInterval = 0
                                 THEN story_state' \in InjectedStories(story_state)
                                 ELSE UNCHANGED story_state
    /\ UNCHANGED <<current_scene, secrets, memories, relationships, turn_history,
                   last_call, result, ops, event_log,
                   scene_manager, scene_transitions, story_memory,
            story_structure>>

EngineCharacters == {"detective_rivera", "ceo_blackwood", "security_torres",
                     "engineer_chen"}

\* AutonomousStorytellingEngine._select_next_character
select_next_character(interaction_count) ==
    IF interaction_count < DetectiveLeadTurns THEN {"detective_rivera"}
    ELSE IF interaction_count < RotationTurns
    THEN {"detective_rivera", "ceo_blackwood", "security_torres"}
    ELSE {"detective_rivera", "ceo_blackwood"}

\* the first keyword class an AI response falls in
ResponseClasses == {"resolution", "investigation", "secret", "emotional", "neutral"}

\* _analyze_ai_response_and_update_story
analyze_ai_response_and_update_story(st, class) ==
    LET analysed ==
          CASE class = "resolution" ->
                 [st EXCEPT !.resolution_readiness = Min(100, @ + 30)]
            [] class = "investigation" ->
                 [st EXCEPT !.conflict_progress = Min(100, @ + 20)]
            [] class = "secret" ->
                 [st EXCEPT !.dramatic_tension = Min(100, @ + 20)]
            [] class = "emotional" ->
                 [st EXCEPT !.dramatic_tension = Min(100, @ + 10)]
            [] OTHER -> st
    IN  [analysed EXCEPT !.character_arc_progress = Min(100, @ + 10)]

\* the metric conditions of _should_story_conclude_from_ai_interactions
engine_metrics_conclude(st, interaction_count) ==
    \/ st.resolution_readiness >= 80
    \/ /\ st.conflict_progress >= 90
       /\ st.character_arc_progress >= 70
       /\ interaction_count >= ConclusionTurns

\* _should_story_conclude_from_ai_interactions; conclusion_keyword: one of the
\* last three responses holds a conclusion keyword
should_story_conclude(st, conclusion_keyword, interaction_count) ==
    \/ engine_metrics_conclude(st, interaction_count)
    \/ conclusion_keyword

\* the class of "<name> responds based on their personality: <traits>":
\* "secretive" holds "secret", "scared" is a trait of engineer_chen
TraitResponseClass(character_id) ==
    CASE character_id = "security_torres" -> "secret"
      [] character_id = "engineer_chen" -> "emotional"
      [] OTHER -> "neutral"

\* an engine whose response to a failed call is the trait-list string
ResponsesTraitsOnFailure(has_ai, character_id) ==
    IF ~has_ai
    THEN {[kind |-> "traits", class |-> TraitResponseClass(character_id),
           conclusion_keyword |-> FALSE, called |-> FALSE, failed |-> FALSE]}
    ELSE [kind : {"generated"}, class : ResponseClasses,
          conclusion_keyword : BOOLEAN, called : {TRUE}, failed : {FALSE}]
         \cup {[kind |-> "traits", class |-> TraitResponseClass(character_id),
                conclusion_keyword |-> FALSE, called |-> TRUE, failed |-> TRUE]}

\* RealCharacterAgent.generate_response: without an AI agent the trait list
\* string; else what Runner.run generates ("arrested", "guilty" and
\* "confession" are conclusion keywords of the resolution class, "solved",
\* "justice" and "case closed" go with any class), and when Runner.run
\* raises "<name> considers the situation carefully..."
Responses(has_ai, character_id) ==
    IF ~has_ai
    THEN {[kind |-> "traits", class |-> TraitResponseClass(character_id),
           conclusion_keyword |-> FALSE, called |-> FALSE, failed |-> FALSE]}
    ELSE [kind : {"generated"}, class : ResponseClasses,
          conclusion_keyword : BOOLEAN, called : {TRUE}, failed : {FALSE}]
         \cup {[kind |-> "considers", class |-> "neutral",
                conclusion_keyword |-> FALSE, called |-> TRUE, failed |-> TRUE]}

EngineLoopStep ==
    /\ loop.coordinator = "engine"
    /\ loop.pc = "loop"
    /\ IF ~(loop.interaction_count < loop.max_interactions)
       THEN /\ loop' = [loop EXCEPT !.pc = "done", !.stop = "budget"]
            /\ UNCHANGED story_state
       ELSE \E active_char_id \in select_next_character(loop.interaction_count) :
              \E r \in Responses(loop.has_ai, active_char_id) :
                 LET l == [loop EXCEPT !.iterations = @ + 1,
                                       !.active_char_id = active_char_id,
                                       !.generator_calls =
                                           IF r.called THEN @ + 1 ELSE @,
                                       !.response = r.kind,
                                       !.failed = r.failed,
                                       !.story_events = @ + 1]
                     st == analyze_ai_response_and_update_story(story_state, r.class)
                 IN  /\ story_state' = st
                     /\ IF should_story_conclude(st, r.conclusion_keyword,
                                                 l.interaction_count)
                        THEN loop' = [l EXCEPT
                                        !.pc = "done",
                                        !.stop =
                                          IF engine_metrics_conclude(
                                                 st, l.interaction_count)
                                          THEN "completion" ELSE "keyword"]
                        ELSE loop' = [l EXCEPT !.interaction_count = @ + 1]
    /\ UNCHANGED <<current_scene, secrets, memories, relationships, turn_history,
                   last_call, result, ops, event_log,
                   scene_manager, scene_transitions, story_memory,
            story_structure>>

----------------------------------------------------------------------------
(* real_ai_storytelling.RealAIStorytellingEngine.run_real_ai_conversation  *)
(* with the cast of _fallback_character_creation.                          *)

RealMaxTurns == 20
ProtagonistTurns == 3
MixedTurns == 10
MinHistory == 5
IndicatorResolution == 80
IndicatorConflict == 70

RealCharacters == {"detective", "ceo", "witness"}

\* _choose_next_speaker: the protagonist opens, then any agent, then the
\* protagonist, the antagonist and agents[:2], which are the same two
choose_next_speaker(turn_count) ==
    IF turn_count < ProtagonistTurns THEN {"detective"}
    ELSE IF turn_count < MixedTurns THEN RealCharacters
    ELSE {"detective", "ceo"}

RealResponseClasses ==
    {"investigation", "revelation", "accusation", "emotional", "neutral"}

\* _analyze_ai_response_for_story_impact
analyze_ai_response_for_story_impact(st, class) ==
    CASE class = "investigation" ->
           [st EXCEPT !.conflict_progress = Min(100, @ + 15)]
      [] class = "revelation" ->
           [st EXCEPT !.dramatic_tension = Min(100, @ + 25),
                      !.resolution_readiness = Min(100, @ + 30)]
      [] class = "accusation" ->
           [st EXCEPT !.resolution_readiness = Min(100, @ + 40)]
      [] class = "emotional" ->
           [st EXCEPT !.dramatic_tension = Min(100, @ + 10)]
      [] OTHER -> [st EXCEPT !.character_arc_progress = Min(100, @ + 10)]

\* the metric condition of _check_if_ai_agents_concluded_story
real_metrics_conclude(st) ==
    /\ st.resolution_readiness >= IndicatorResolution
    /\ st.conflict_progress >= IndicatorConflict

\* _check_if_ai_agents_concluded_story
check_if_ai_agents_concluded_story(st, history_length, since_indicator) ==
    IF history_length < MinHistory THEN FALSE
    ELSE \/ since_indicator < RecentResponses
         \/ real_metrics_conclude(st)

\* the class of "As someone who is <traits>, I need to think about this
\* situation carefully.": the ceo is "secretive"
RealTraitResponseClass(character_id) ==
    IF character_id = "ceo" THEN "revelation" ELSE "neutral"

\* RealCharacterAgent.respond_to_situation
RealResponses(has_ai, character_id) ==
    IF ~has_ai
    THEN {[kind |-> "traits", class |-> RealTraitResponseClass(character_id),
           indicator |-> FALSE, called |-> FALSE, failed |-> FALSE]}
    ELSE [kind : {"generated"}, class : RealResponseClasses,
          indicator : BOOLEAN, called : {TRUE}, failed : {FALSE}]
         \cup {[kind |-> "pauses", class |-> "neutral",
                indicator |-> FALSE, called |-> TRUE, failed |-> TRUE]}

RealLoopStep ==
    /\ loop.coordinator = "real"
    /\ loop.pc = "loop"
    /\ IF ~(loop.interaction_count < loop.max_interactions)
       THEN /\ loop' = [loop EXCEPT !.pc = "done", !.stop = "budget"]
            /\ UNCHANGED story_state
       ELSE \E speaking_agent_id \in choose_next_speaker(loop.interaction_count) :
              \E r \in RealResponses(loop.has_ai, speaking_agent_id) :
                 LET l == [loop EXCEPT !.iterations = @ + 1,
                                       !.active_char_id = speaking_agent_id,
                                       !.generator_calls =
                                           IF r.called THEN @ + 1 ELSE @,
                                       !.response = r.kind,
                                       !.failed = r.failed,
                                       !.story_events = @ + 1,
                                       !.since_indicator =
                                           IF r.indicator THEN 0
                                           ELSE Min(RecentResponses, @ + 1)]
                     st == analyze_ai_response_for_story_impact(story_state, r.class)
                 IN  /\ story_state' = st
                     /\ IF check_if_ai_agents_concluded_story(
                              st, l.story_events, l.since_indicator)
                        THEN loop' = [l EXCEPT
                                        !.pc = "done",
                                        !.stop =
                                          IF real_metrics_conclude(st)
                                          THEN "completion" ELSE "keyword"]
                        ELSE loop' = [l EXCEPT !.interaction_count = @ + 1]
    /\ UNCHANGED <<current_scene, secrets, memories, relationships, turn_history,
                   last_call, result, ops, event_log,
                   scene_manager, scene_transitions, story_memory,
            story_structure>>

----------------------------------------------------------------------------
(* The generator call of the engine as the suspension it is: the loop      *)
(* selects a character, awaits Runner.run on that character's agent, and   *)
(* resumes with the response.  The tools of the awaited agent are what     *)
(* runs inside the call.                                                    *)

\* an agent that carries state-writing tools, as create_character_agent's do
AgentToolsWriting == {"express_emotion", "take_character_action"}

\* Agent(name=..., instructions=...) in RealCharacterAgent.__init__: no tools
AgentTools == {}

\* the stories the call can leave behind: the one it was made on, or that one
\* after a tool of the agent has run on it
StoriesAfterCall(tools, st) ==
    {st}
    \cup { ActionStory(st, action_type) :
             action_type \in IF "take_character_action" \in tools
                             THEN {"investigative", "confrontational"} ELSE {} }
    \cup { [st EXCEPT !.dramatic_tension = Min(100, @ + EmotionTension(emotion, 100))] :
             emotion \in IF "express_emotion" \in tools
                         THEN {"anger", "joy"} ELSE {} }

\* the while test, the selection and the prompt, up to await Runner.run
EngineAwaitGenerator ==
    /\ loop.coordinator = "engine"
    /\ loop.pc = "loop"
    /\ loop.has_ai
    /\ IF ~(loop.interaction_count < loop.max_interactions)
       THEN /\ loop' = [loop EXCEPT !.pc = "done", !.stop = "budget"]
            /\ UNCHANGED last_call
       ELSE \E active_char_id \in select_next_character(loop.interaction_count) :
              /\ loop' = [loop EXCEPT !.pc = "suspended",
                                      !.iterations = @ + 1,
                                      !.active_char_id = active_char_id,
                                      !.generator_calls = @ + 1]
              /\ last_call' = [op |-> "await Runner.run", read |-> story_state]
    /\ UNCHANGED <<story_state, current_scene, secrets, memories, relationships,
                   turn_history, result, ops, event_log,
                   scene_manager, scene_transitions, story_memory,
            story_structure>>

\* Runner.run returns or raises, and the rest of the loop body runs
EngineResume ==
    /\ loop.coordinator = "engine"
    /\ loop.pc = "suspended"
    /\ \E r \in Responses(TRUE, loop.active_char_id) :
         \E resumed_with \in StoriesAfterCall(AgentTools, story_state) :
            LET l == [loop EXCEPT !.pc = "loop",
                                  !.response = r.kind,
                                  !.failed = r.failed,
                                  !.story_events = @ + 1]
                st == analyze_ai_response_and_update_story(resumed_with, r.class)
            IN  /\ story_state' = st
                /\ last_call' = [op |-> "Runner.run returned",
                                 read |-> last_call.read,
                                 resumed_with |-> resumed_with]
                /\ IF should_story_conclude(st, r.conclusion_keyword,
                                            l.interaction_count)
                   THEN loop' = [l EXCEPT
                                   !.pc = "done",
                                   !.stop =
                                     IF engine_metrics_conclude(
                                            st, l.interaction_count)
                                     THEN "completion" ELSE "keyword"]
                   ELSE loop' = [l EXCEPT !.interaction_count = @ + 1]
    /\ UNCHANGED <<current_scene, secrets, memories, relationships, turn_history,
                   result, ops, event_log,
                   scene_manager, scene_transitions, story_memory,
            story_structure>>

----------------------------------------------------------------------------
(* agents/scene_manager.SceneManagerAgent: its scene workflows.  workflow  *)
(* and characters_to_carry record the method called last and its argument, *)
(* turns_given the characters manage_character_turns has selected since    *)
(* the scene started.                                                      *)

\* SceneManagerAgent.__init__
NewSceneManager ==
    [current_scene |-> None, scene_history |-> << >>, turn_order |-> << >>,
     current_turn_index |-> 0, turns_given |-> << >>,
     workflow |-> "", characters_to_carry |-> << >>]

\* StoryStructure.__init__: no beat yet, the tracker at "setup"
NewStoryStructure == [beats |-> << >>, current_beat |-> "setup"]

\* what the actions of the tools and of the loops leave alone
others == <<loop, event_log, scene_manager, scene_transitions, story_memory,
            story_structure>>

\* the SceneContext objects handed to the workflows: the requests that
\* SceneContext.__post_init__ accepts
SceneContexts ==
    { r \in StartRequests :
        SceneContextPostInit(r.location, r.present_characters) = "ok" }

SceneOf(r) ==
    [location |-> r.location, mood |-> r.mood,
     present_characters |-> r.present_characters,
     scene_objectives |-> r.scene_objectives,
     dramatic_tension_target |-> r.target]


\* the SceneContext object handed to the n-th call: two objects of the same
\* content are two scenes
SceneObject(r, n) ==
    [f \in DOMAIN SceneOf(r) \cup {"object"} |->
        IF f = "object" THEN n ELSE SceneOf(r)[f]]

\* start_new_scene_workflow, on the manager m
start_new_scene_workflow(m, scene_context) ==
    /\ start_new_scene(<<Len(m.scene_history) + 1, scene_context.location>>,
                       scene_context.location, scene_context.mood,
                       scene_context.present_characters,
                       scene_context.scene_objectives, scene_context.target)
    /\ scene_manager' =
         IF result'.success
         THEN [m EXCEPT !.current_scene = SceneObject(scene_context, ops'),
                        !.turn_order = scene_context.present_characters,
                        !.current_turn_index = 0,
                        !.turns_given = << >>]
         ELSE m

StartNewSceneWorkflow ==
    \E scene_context \in SceneContexts :
        start_new_scene_workflow(
            [scene_manager EXCEPT !.workflow = "start_new_scene_workflow",
                                  !.characters_to_carry = << >>],
            scene_context)

transition_to_new_scene(new_scene_context, characters_to_carry) ==
    LET m == [scene_manager EXCEPT !.workflow = "transition_to_new_scene",
                                   !.characters_to_carry = characters_to_carry]
    IN  IF m.current_scene = None
        THEN /\ ops' = ops + 1
             /\ last_call' = [op |-> "transition_to_new_scene"]
             /\ result' = [success |-> FALSE,
                           error |-> "No current scene to transition from"]
             /\ scene_manager' = m
             /\ UNCHANGED <<story_state, current_scene, secrets, memories,
                            relationships, turn_history>>
        ELSE \* the current scene is archived before the new one is started
             start_new_scene_workflow(
                 [m EXCEPT !.scene_history = Append(@, m.current_scene)],
                 new_scene_context)

TransitionToNewScene ==
    \E new_scene_context \in SceneContexts :
      \E characters_to_carry \in {<< >>, <<"a">>, <<"c">>} :
        transition_to_new_scene(new_scene_context, characters_to_carry)

end_current_scene_workflow ==
    LET m == [scene_manager EXCEPT !.workflow = "end_current_scene_workflow",
                                   !.characters_to_carry = << >>]
    IN  IF m.current_scene = None
        THEN /\ ops' = ops + 1
             /\ last_call' = [op |-> "end_current_scene_workflow"]
             /\ result' = [success |-> FALSE, error |-> "No active scene to end"]
             /\ scene_manager' = m
             /\ UNCHANGED <<story_state, current_scene, secrets, memories,
                            relationships, turn_history>>
        ELSE /\ end_current_scene("Objectives completed", "complete")
             /\ scene_manager' =
                  IF result'.success
                  THEN [m EXCEPT !.scene_history = Append(@, m.current_scene),
                                 !.current_scene = None,
                                 !.turn_order = << >>,
                                 !.current_turn_index = 0,
                                 !.turns_given = << >>]
                  ELSE m


\* scene_tools.manage_turn_taking: the turn of next_character, with its record
manage_turn_taking(next_character, interaction_type) ==
    LET error == TurnError(current_scene, next_character, "") IN
    IF error # ""
    THEN /\ result' = [success |-> FALSE, error |-> error]
         /\ UNCHANGED <<story_state, turn_history>>
    ELSE /\ story_state' = TurnStory(story_state, interaction_type)
         /\ turn_history' = Append(turn_history,
                                   [turn_number |-> Len(turn_history) + 1,
                                    character_id |-> next_character,
                                    interaction_type |-> interaction_type])
         /\ result' = [success |-> TRUE, current_speaker |-> next_character]

\* a turn index that goes back to the second place of the order
TurnIndexBackToSecond(current_turn_index, n) ==
    IF current_turn_index >= n THEN Min(1, n - 1) ELSE current_turn_index

\* the index manage_character_turns reads the order at: back to 0 at its end
TurnIndex(current_turn_index, n) ==
    IF current_turn_index >= n THEN 0 ELSE current_turn_index

\* SceneManagerAgent.manage_character_turns
manage_character_turns ==
    LET m == [scene_manager EXCEPT !.workflow = "manage_character_turns",
                                   !.characters_to_carry = << >>]
    IN  /\ ops' = ops + 1
        /\ UNCHANGED <<current_scene, secrets, memories, relationships>>
        /\ IF m.current_scene = None \/ m.turn_order = << >>
           THEN /\ last_call' = [op |-> "manage_character_turns"]
                /\ result' = [success |-> FALSE,
                              error |-> "No active scene or character turn order"]
                /\ scene_manager' = m
                /\ UNCHANGED <<story_state, turn_history>>
           ELSE LET index == TurnIndex(m.current_turn_index, Len(m.turn_order))
                    \* a Python list is read from 0
                    next_character == m.turn_order[index + 1]
                IN  /\ last_call' = [op |-> "manage_character_turns",
                                     next_character |-> next_character]
                    /\ scene_manager' =
                         [m EXCEPT !.current_turn_index = index + 1,
                                   !.turns_given = Append(@, next_character)]
                    /\ manage_turn_taking(next_character, "dialogue")

\* SceneManagerAgent.coordinate_dialogue: the tool, once the manager has a scene
coordinate_dialogue(speaking_character, target_character) ==
    LET m == [scene_manager EXCEPT !.workflow = "coordinate_dialogue",
                                   !.characters_to_carry = << >>]
    IN  /\ scene_manager' = m
        /\ IF m.current_scene = None
           THEN /\ ops' = ops + 1
                /\ last_call' = [op |-> "coordinate_dialogue"]
                /\ result' = [success |-> FALSE,
                              error |-> "No active scene for dialogue coordination"]
                /\ UNCHANGED <<story_state, current_scene, secrets, memories,
                               relationships, turn_history>>
           ELSE coordinate_character_dialogue(speaking_character,
                                              target_character)

CoordinateDialogue ==
    \E r \in { <<"a", "">>, <<"a", "b">>, <<"c", "a">>, <<"x", "">> } :
        coordinate_dialogue(r[1], r[2])

----------------------------------------------------------------------------
(* tools/memory_tools.MemoryManager and its StoryMemory, as far as the     *)
(* memories of the characters go.  A character without a key in            *)
(* character_memories has the empty list, which is what                    *)
(* get_character_memories returns for it.                                  *)

\* MemoryManager.__init__
NewMemoryManager ==
    [context_set |-> FALSE, character_memories |-> [c \in CharIds |-> << >>]]

\* StoryMemory.add_character_memory
add_character_memory(character_memories, character_id, memory) ==
    IF memory # "" /\ ~InList(memory, character_memories[character_id])
    THEN [character_memories EXCEPT ![character_id] = Append(@, memory)]
    ELSE character_memories

set_context ==
    /\ ops' = ops + 1
    /\ last_call' = [op |-> "set_context"]
    /\ story_memory' = [story_memory EXCEPT !.context_set = TRUE]
    /\ result' = None
    /\ UNCHANGED <<story_state, current_scene, secrets, memories, relationships,
                   turn_history, loop, event_log, scene_manager,
                   scene_transitions, story_structure>>

record_character_memory(character_id, memory) ==
    /\ ops' = ops + 1
    /\ last_call' = [op |-> "record_character_memory",
                     character_id |-> character_id, memory |-> memory]
    /\ IF story_memory.context_set /\ character_id \notin Registry
       THEN /\ result' = [success |-> FALSE]
            /\ UNCHANGED story_memory
       ELSE /\ story_memory' =
                 [story_memory EXCEPT !.character_memories =
                     add_character_memory(@, character_id, memory)]
            /\ result' = [success |-> TRUE]
    /\ UNCHANGED <<story_state, current_scene, secrets, memories, relationships,
                   turn_history, loop, event_log, scene_manager,
                   scene_transitions, story_structure>>

RecordCharacterMemory ==
    \E character_id \in CharIds : \E memory \in {"", "m1", "m2"} :
        record_character_memory(character_id, memory)

\* self.memory = StoryMemory()
clear_memory ==
    /\ ops' = ops + 1
    /\ last_call' = [op |-> "clear_memory"]
    /\ story_memory' = [story_memory EXCEPT
                          !.character_memories = NewMemoryManager.character_memories]
    /\ result' = [success |-> TRUE]
    /\ UNCHANGED <<story_state, current_scene, secrets, memories, relationships,
                   turn_history, loop, event_log, scene_manager,
                   scene_transitions, story_structure>>

----------------------------------------------------------------------------

Init ==
    /\ story_state = NewStoryState("mystery", "setup")
    /\ current_scene = None
    /\ secrets = InitialSecrets
    /\ memories = [c \in Registry |-> << >>]
    /\ relationships = << >>
    /\ turn_history = << >>
    /\ event_log = << >>
    /\ scene_manager = NewSceneManager
    /\ scene_transitions = << >>
    /\ story_memory = NewMemoryManager
    /\ story_structure = NewStoryStructure
    /\ last_call = [op |-> "init"]
    /\ result = [success |-> TRUE]
    /\ ops = 0
    /\ loop = IdleLoop


Next ==
    \/ ops < MaxOps /\ StartNewScene /\ UNCHANGED others
    \/ ops < MaxOps /\ ManageCharacterTurn /\ UNCHANGED others
    \/ ops < MaxOps /\ CoordinateCharacterDialogue /\ UNCHANGED others
    \/ ops < MaxOps /\ UpdateSceneContext /\ UNCHANGED others
    \/ ops < MaxOps /\ EndCurrentScene /\ UNCHANGED others
    \/ ops < MaxOps /\ RevealCharacterSecret /\ UNCHANGED others
    \/ ops < MaxOps /\ ExpressEmotion /\ UNCHANGED others
    \/ ops < MaxOps /\ TakeCharacterAction /\ UNCHANGED others
    \/ ops < MaxOps /\ UpdateCharacterRelationship /\ UNCHANGED others

Spec == Init /\ [][Next]_vars

----------------------------------------------------------------------------
(* The story progression: beats, tension and injected events.              *)

InitProgression ==
    /\ \E g \in Genres : story_state = NewStoryState(g, "setup")
    /\ current_scene = None
    /\ secrets = InitialSecrets
    /\ memories = [c \in Registry |-> << >>]
    /\ relationships = << >>
    /\ turn_history = << >>
    /\ event_log = << >>
    /\ scene_manager = NewSceneManager
    /\ scene_transitions = << >>
    /\ story_memory = NewMemoryManager
    /\ story_structure = NewStoryStructure
    /\ last_call = [op |-> "init"]
    /\ result = [success |-> TRUE]
    /\ ops = 0
    /\ loop = IdleLoop

NextProgression ==
    \/ ops < MaxOps /\ advance_story_beat /\ UNCHANGED others
    \/ ops < MaxOps /\ SetStoryBeat /\ UNCHANGED others
    \/ ops < MaxOps /\ AdjustDramaticTension /\ UNCHANGED others
    \/ ops < MaxOps /\ SetDramaticTension /\ UNCHANGED others
    \/ ops < MaxOps /\ auto_adjust_tension_for_beat /\ UNCHANGED others
    \/ ops < MaxOps /\ UpdateCharacterArcProgress /\ UNCHANGED others
    \/ ops < MaxOps /\ UpdateDramaticTension /\ UNCHANGED others
    \/ ops < MaxOps /\ CheckStoryProgress /\ UNCHANGED others
    \/ ops < MaxOps /\ InjectRandomEvent /\ UNCHANGED others

SpecProgression == InitProgression /\ [][NextProgression]_vars

----------------------------------------------------------------------------
(* Ten advances in a row from "setup".                                     *)

Advances == 10

InitAdvances ==
    /\ \E g \in Genres : \E tension \in {0, 50, 100} :
          story_state = [NewStoryState(g, "setup") EXCEPT !.dramatic_tension = tension]
    /\ current_scene = None
    /\ secrets = InitialSecrets
    /\ memories = [c \in Registry |-> << >>]
    /\ relationships = << >>
    /\ turn_history = << >>
    /\ event_log = << >>
    /\ scene_manager = NewSceneManager
    /\ scene_transitions = << >>
    /\ story_memory = NewMemoryManager
    /\ story_structure = NewStoryStructure
    /\ last_call = [op |-> "init"]
    /\ result = [success |-> TRUE]
    /\ ops = 0
    /\ loop = IdleLoop

NextAdvances == ops < Advances /\ advance_story_beat /\ UNCHANGED others

SpecAdvances == InitAdvances /\ [][NextAdvances]_vars

----------------------------------------------------------------------------
(* The coordinator loops, from any story they can be started on.           *)

LoopStories ==
    { [NewStoryState("mystery", "setup") EXCEPT
          !.dramatic_tension = m[1], !.setup_progress = m[2],
          !.conflict_progress = m[3], !.character_arc_progress = m[4],
          !.resolution_readiness = m[5]] :
        m \in { <<50, 0, 0, 0, 0>>, <<70, 0, 0, 0, 0>>, <<70, 100, 30, 0, 0>>,
                <<90, 100, 80, 70, 0>>, <<30, 100, 100, 90, 100>>,
                <<50, 0, 100, 90, 80>> } }

InitLoop ==
    /\ story_state \in LoopStories
    /\ current_scene = None
    /\ secrets = InitialSecrets
    /\ memories = [c \in Registry |-> << >>]
    /\ relationships = << >>
    /\ turn_history = << >>
    /\ event_log = << >>
    /\ scene_manager = NewSceneManager
    /\ scene_transitions = << >>
    /\ story_memory = NewMemoryManager
    /\ story_structure = NewStoryStructure
    /\ last_call = [op |-> "init"]
    /\ result = [success |-> TRUE]
    /\ ops = 0
    /\ \/ \E agents \in {{}, Registry} :
          \E max_interactions \in {0, 1, DefaultMaxInteractions} :
             loop = [IdleLoop EXCEPT !.coordinator = "simulation", !.pc = "loop",
                                     !.max_interactions = max_interactions,
                                     !.agents = agents]
       \/ \E has_ai \in BOOLEAN :
             loop = [IdleLoop EXCEPT !.coordinator = "engine", !.pc = "loop",
                                     !.max_interactions = EngineMaxInteractions,
                                     !.agents = EngineCharacters,
                                     !.has_ai = has_ai]


NextLoop ==
    \/ SimulationLoopStep
    \/ EngineLoopStep

SpecLoop == InitLoop /\ [][NextLoop]_vars /\ WF_vars(NextLoop)

\* the story _fallback_character_creation builds, and one further on
RealLoopStories ==
    { s \in LoopStories :
        s.setup_progress = 0 /\ s.dramatic_tension = 50 }

InitRealLoop ==
    /\ story_state \in RealLoopStories
    /\ current_scene = None
    /\ secrets = InitialSecrets
    /\ memories = [c \in Registry |-> << >>]
    /\ relationships = << >>
    /\ turn_history = << >>
    /\ event_log = << >>
    /\ scene_manager = NewSceneManager
    /\ scene_transitions = << >>
    /\ story_memory = NewMemoryManager
    /\ story_structure = NewStoryStructure
    /\ last_call = [op |-> "init"]
    /\ result = [success |-> TRUE]
    /\ ops = 0
    /\ \E has_ai \in BOOLEAN :
          loop = [IdleLoop EXCEPT !.coordinator = "real", !.pc = "loop",
                                  !.max_interactions = RealMaxTurns,
                                  !.agents = RealCharacters,
                                  !.has_ai = has_ai]

NextRealLoop == RealLoopStep

SpecRealLoop == InitRealLoop /\ [][NextRealLoop]_vars /\ WF_vars(NextRealLoop)

----------------------------------------------------------------------------
(* The loops with the generator call of the engine taken apart.            *)

InitGenerator ==
    /\ InitLoop
    /\ loop.coordinator = "engine" => loop.has_ai

NextGenerator ==
    \/ SimulationLoopStep
    \/ EngineAwaitGenerator
    \/ EngineResume

SpecGenerator == InitGenerator /\ [][NextGenerator]_vars

----------------------------------------------------------------------------
(* A scene that is ended and started again under its id, then a turn.      *)

\* the states start_new_scene("s", ...) leaves a new story in
InitRestart ==
    /\ \E r \in StartRequests :
          /\ MissingCharacters(r.present_characters) = << >>
          /\ SceneContextPostInit(r.location, r.present_characters) = "ok"
          /\ current_scene =
                 [location |-> r.location, mood |-> r.mood,
                  present_characters |-> r.present_characters,
                  scene_objectives |-> r.scene_objectives,
                  dramatic_tension_target |-> r.target]
          /\ story_state = StartSceneStory(NewStoryState("mystery", "setup"),
                                           r.scene_objectives, r.target)
          /\ last_call = [op |-> "start_new_scene", scene_id |-> "s",
                          location |-> r.location, mood |-> r.mood,
                          present_characters |-> r.present_characters,
                          scene_objectives |-> r.scene_objectives,
                          target |-> r.target]
          /\ result = [success |-> TRUE, scene_id |-> "s",
                       story_tension |-> story_state.dramatic_tension]
    /\ secrets = InitialSecrets
    /\ memories = [c \in Registry |-> << >>]
    /\ relationships = << >>
    /\ turn_history = << >>
    /\ event_log = << >>
    /\ scene_manager = NewSceneManager
    /\ scene_transitions = << >>
    /\ story_memory = NewMemoryManager
    /\ story_structure = NewStoryStructure
    /\ ops = 0
    /\ loop = IdleLoop

NextRestart ==
    \/ ops = 0 /\ EndCurrentScene /\ UNCHANGED others
    \/ ops = 1 /\ StartNewScene /\ UNCHANGED others
    \/ ops = 2 /\ ManageCharacterTurn /\ UNCHANGED others

SpecRestart == InitRestart /\ [][NextRestart]_vars

----------------------------------------------------------------------------
(* The scene workflows of the SceneManagerAgent.                           *)

NextSceneManager ==
    \/ ops < MaxOps /\ StartNewSceneWorkflow /\ UNCHANGED <<loop, event_log, scene_transitions, story_memory,
            story_structure>>
    \/ ops < MaxOps /\ TransitionToNewScene /\ UNCHANGED <<loop, event_log, scene_transitions, story_memory,
            story_structure>>
    \/ ops < MaxOps /\ end_current_scene_workflow /\ UNCHANGED <<loop, event_log, scene_transitions, story_memory,
            story_structure>>
    \/ ops < MaxOps /\ CoordinateDialogue /\ UNCHANGED <<loop, event_log, scene_transitions, story_memory,
            story_structure>>

SpecSceneManager == Init /\ [][NextSceneManager]_vars

\* the calls of a manager that gives turns
MaxTurnOps == 5

NextTurns ==
    \/ ops < MaxTurnOps /\ StartNewSceneWorkflow /\ UNCHANGED <<loop, event_log, scene_transitions, story_memory,
            story_structure>>
    \/ ops < MaxTurnOps /\ manage_character_turns /\ UNCHANGED <<loop, event_log, scene_transitions, story_memory,
            story_structure>>
    \/ ops < MaxTurnOps /\ end_current_scene_workflow /\ UNCHANGED <<loop, event_log, scene_transitions, story_memory,
            story_structure>>

SpecTurns == Init /\ [][NextTurns]_vars

----------------------------------------------------------------------------
(* The tools on characters that hold several secrets, one of them twice.   *)

SecretNames == {"s1", "s2", "s9"}

ProfileSecrets ==
    [c \in Registry |-> CASE c = "a" -> <<"s1", "s2">>
                          [] c = "b" -> <<"s2", "s2">>
                          [] OTHER -> << >>]

InitSecrets ==
    /\ story_state = NewStoryState("mystery", "setup")
    /\ current_scene = None
    /\ secrets = ProfileSecrets
    /\ memories = [c \in Registry |-> << >>]
    /\ relationships = << >>
    /\ turn_history = << >>
    /\ event_log = << >>
    /\ scene_manager = NewSceneManager
    /\ scene_transitions = << >>
    /\ story_memory = NewMemoryManager
    /\ story_structure = NewStoryStructure
    /\ last_call = [op |-> "init"]
    /\ result = [success |-> TRUE]
    /\ ops = 0
    /\ loop = IdleLoop

RevealAnySecret ==
    \E character_id \in CharIds : \E secret \in SecretNames :
      \E revelation_type \in {"public", "private"} :
        reveal_character_secret(character_id, secret, revelation_type, "")

NextSecrets ==
    \/ ops < MaxOps /\ StartNewScene /\ UNCHANGED others
    \/ ops < MaxOps /\ ManageCharacterTurn /\ UNCHANGED others
    \/ ops < MaxOps /\ EndCurrentScene /\ UNCHANGED others
    \/ ops < MaxOps /\ RevealAnySecret /\ UNCHANGED others
    \/ ops < MaxOps /\ ExpressEmotion /\ UNCHANGED others
    \/ ops < MaxOps /\ TakeCharacterAction /\ UNCHANGED others

SpecSecrets == InitSecrets /\ [][NextSecrets]_vars

----------------------------------------------------------------------------
(* The operations of the MemoryManager.                                    *)

NextMemoryManager ==
    \/ ops < MaxOps /\ set_context
    \/ ops < MaxOps /\ RecordCharacterMemory
    \/ ops < MaxOps /\ clear_memory

SpecMemoryManager == Init /\ [][NextMemoryManager]_vars

----------------------------------------------------------------------------
(* tools/dramatic_tools: ACTIVE_EVENTS, inject_dramatic_event and          *)
(* escalate_existing_conflict.  A text is the sequence of its characters;  *)
(* an event id is unique by its timestamp, for which the position of the   *)
(* event in the log stands.                                                *)

Digits == <<"1", "2", "3", "4", "5", "6", "7", "8">>

\* f"event_{len(ACTIVE_EVENTS) + 1}_{timestamp}"
EventId(n) == <<"event_", Digits[n]>>

\* f"escalation_{conflict_id}_{timestamp}"
EscalationId(conflict_id, n) == <<"escalation_">> \o conflict_id \o <<"_", Digits[n]>>

\* the capital letters of the texts tried, and their small letters
SmallLetter ==
    [c \in {"A", "B", "C", "E", "I", "L", "N", "O", "Q", "R", "S", "T"} |->
        CASE c = "A" -> "a" [] c = "B" -> "b" [] c = "C" -> "c"
          [] c = "E" -> "e" [] c = "I" -> "i" [] c = "L" -> "l"
          [] c = "N" -> "n" [] c = "O" -> "o" [] c = "Q" -> "q"
          [] c = "R" -> "r" [] c = "S" -> "s" [] c = "T" -> "t"]

\* str.lower
Lower(text) ==
    [i \in 1..Len(text) |->
        IF text[i] \in DOMAIN SmallLetter THEN SmallLetter[text[i]] ELSE text[i]]

\* the prefix "ESCALATION: " of the description of an escalation
EscalationPrefix ==
    <<"E", "S", "C", "A", "L", "A", "T", "I", "O", "N", ":", " ">>

\* "s in t" of two Python strings
IsInfix(s, t) ==
    \E i \in 0..(Len(t) - Len(s)) : SubSeq(t, i + 1, i + Len(s)) = s

\* a test that looks for the id in the description as it is written
MatchesAsWritten(event, conflict_id) ==
    \/ event.event_id = conflict_id
    \/ IsInfix(conflict_id, event.description)

\* event.event_id == conflict_id or conflict_id in event.description.lower()
Matches(event, conflict_id) ==
    \/ event.event_id = conflict_id
    \/ IsInfix(conflict_id, Lower(event.description))

RECURSIVE FirstMatch(_, _, _)
\* the for loop with its break: the index of the first matching event from
\* position i on, 0 when there is none
FirstMatch(events, conflict_id, i) ==
    IF i > Len(events) THEN 0
    ELSE IF Matches(events[i], conflict_id) THEN i
    ELSE FirstMatch(events, conflict_id, i + 1)

inject_dramatic_event(event_type, description, affected_characters, intensity) ==
    /\ ops' = ops + 1
    /\ last_call' = [op |-> "inject_dramatic_event", event_type |-> event_type,
                     description |-> description,
                     affected_characters |-> affected_characters,
                     intensity |-> intensity]
    /\ event_log' =
         Append(event_log,
                [event_id |-> EventId(Len(event_log) + 1),
                 event_type |-> event_type, description |-> description,
                 affected_characters |-> affected_characters,
                 intensity |-> Max(0, Min(100, intensity))])
    /\ result' = [success |-> TRUE,
                  event_id |-> EventId(Len(event_log) + 1),
                  intensity |-> Max(0, Min(100, intensity))]
    /\ UNCHANGED <<story_state, current_scene, secrets, memories,
                   relationships, turn_history, loop, scene_manager,
                   scene_transitions, story_memory,
            story_structure>>

\* the descriptions tried: "Ab" and "ba"
EventDescriptions == { <<"A", "b">>, <<"b", "a">> }

InjectDramaticEvent ==
    \E description \in EventDescriptions :
      \E affected_characters \in { <<"a">>, <<"b", "c">> } :
        \E intensity \in {30, 90, 150} :
          inject_dramatic_event("betrayal", description, affected_characters,
                                intensity)

escalate_existing_conflict(conflict_id, escalation_description) ==
    /\ ops' = ops + 1
    /\ last_call' = [op |-> "escalate_existing_conflict",
                     conflict_id |-> conflict_id,
                     escalation_description |-> escalation_description]
    /\ LET i == FirstMatch(event_log, conflict_id, 1) IN
       IF i # 0
       THEN /\ event_log' =
                 Append(event_log,
                        [event_id |-> EscalationId(conflict_id,
                                                   Len(event_log) + 1),
                         event_type |-> "conflict_escalation",
                         description |->
                             EscalationPrefix \o escalation_description,
                         affected_characters |->
                             event_log[i].affected_characters,
                         intensity |-> Min(100, event_log[i].intensity + 20)])
            /\ result' = [success |-> TRUE,
                          original_conflict |-> event_log[i].event_id,
                          new_intensity |->
                              Min(100, event_log[i].intensity + 20)]
       ELSE /\ result' = [success |-> FALSE, error |-> "Conflict not found"]
            /\ UNCHANGED event_log
    /\ UNCHANGED <<story_state, current_scene, secrets, memories,
                   relationships, turn_history, loop, scene_manager,
                   scene_transitions, story_memory,
            story_structure>>

\* the ids tried: those of the first two events, "ab", "Ab", "a", "c"
ConflictIds ==
    { EventId(1), EventId(2), <<"a", "b">>, <<"A", "b">>, <<"a">>, <<"c">> }

EscalateExistingConflict ==
    \E conflict_id \in ConflictIds :
        escalate_existing_conflict(conflict_id, <<"b">>)

NextDramatic ==
    \/ ops < MaxOps /\ InjectDramaticEvent
    \/ ops < MaxOps /\ EscalateExistingConflict

SpecDramatic == Init /\ [][NextDramatic]_vars

----------------------------------------------------------------------------
(* scene_tools.check_scene_objectives.  An objective is the sequence of    *)
(* its characters.  A progress is kept in thirds of a hundredth, so that   *)
(* the mean of three metrics is exact; total_progress is the quotient      *)
(* total / (300 * count), which the result keeps as its two terms.         *)

WordInvestigation == <<"i", "n", "v", "e", "s", "t", "i", "g", "a", "t", "i", "o", "n">>
WordInterrogation == <<"i", "n", "t", "e", "r", "r", "o", "g", "a", "t", "i", "o", "n">>
WordQuestion == <<"q", "u", "e", "s", "t", "i", "o", "n">>
WordResolution == <<"r", "e", "s", "o", "l", "u", "t", "i", "o", "n">>
WordReveal == <<"r", "e", "v", "e", "a", "l">>

\* a rule order that asks for the resolution words before the questioning ones
ObjectiveProgressResolutionFirst(objective, st) ==
    LET low == Lower(objective) IN
    IF IsInfix(WordInvestigation, low) THEN 3 * st.conflict_progress
    ELSE IF IsInfix(WordResolution, low) \/ IsInfix(WordReveal, low)
    THEN 3 * st.resolution_readiness
    ELSE IF IsInfix(WordInterrogation, low) \/ IsInfix(WordQuestion, low)
    THEN 3 * st.character_arc_progress
    ELSE st.setup_progress + st.conflict_progress + st.character_arc_progress

\* the progress of one objective: the if / elif chain on objective.lower()
ObjectiveProgress(objective, st) ==
    LET low == Lower(objective) IN
    IF IsInfix(WordInvestigation, low) THEN 3 * st.conflict_progress
    ELSE IF IsInfix(WordInterrogation, low) \/ IsInfix(WordQuestion, low)
    THEN 3 * st.character_arc_progress
    ELSE IF IsInfix(WordResolution, low) \/ IsInfix(WordReveal, low)
    THEN 3 * st.resolution_readiness
    ELSE st.setup_progress + st.conflict_progress + st.character_arc_progress

RECURSIVE SumSeq(_)
\* sum(...) of a list of numbers
SumSeq(s) == IF s = << >> THEN 0 ELSE Head(s) + SumSeq(Tail(s))

check_scene_objectives ==
    /\ ops' = ops + 1
    /\ last_call' = [op |-> "check_scene_objectives"]
    /\ IF current_scene = None
       THEN result' = [success |-> FALSE, error |-> "No active scene"]
       ELSE LET progress ==
                    [i \in 1..Len(current_scene.scene_objectives) |->
                        ObjectiveProgress(current_scene.scene_objectives[i],
                                          story_state)]
            IN  result' = [success |-> TRUE, progress |-> progress,
                           total |-> SumSeq(progress), count |-> Len(progress)]
    /\ UNCHANGED <<story_state, current_scene, secrets, memories,
                   relationships, turn_history>>

\* the objective lists tried: none; "Reveal investigation"; "Question" and
\* "reveal"; "talk" and "interrogation reveal"; "Question"; "resolution"
ObjectiveLists ==
    { << >>,
      << <<"R", "e", "v", "e", "a", "l", " ", "i", "n", "v", "e", "s", "t", "i", "g", "a", "t", "i", "o", "n">> >>,
      << <<"Q", "u", "e", "s", "t", "i", "o", "n">>, <<"r", "e", "v", "e", "a", "l">> >>,
      << <<"t", "a", "l", "k">>, <<"i", "n", "t", "e", "r", "r", "o", "g", "a", "t", "i", "o", "n", " ", "r", "e", "v", "e", "a", "l">> >>,
      << <<"Q", "u", "e", "s", "t", "i", "o", "n">> >>,
      << <<"r", "e", "s", "o", "l", "u", "t", "i", "o", "n">> >> }

InitObjectives ==
    /\ \E m \in {0, 80} \X {10, 50} \X {0, 90} \X {0, 80} :
          story_state = [NewStoryState("mystery", "setup") EXCEPT
                            !.setup_progress = m[1], !.conflict_progress = m[2],
                            !.character_arc_progress = m[3],
                            !.resolution_readiness = m[4]]
    /\ \/ current_scene = None
       \/ \E objectives \in ObjectiveLists :
             current_scene = [location |-> "office", mood |-> "tense",
                              present_characters |-> <<"a", "b">>,
                              scene_objectives |-> objectives,
                              dramatic_tension_target |-> 50]
    /\ secrets = InitialSecrets
    /\ memories = [c \in Registry |-> << >>]
    /\ relationships = << >>
    /\ turn_history = << >>
    /\ event_log = << >>
    /\ scene_manager = NewSceneManager
    /\ scene_transitions = << >>
    /\ story_memory = NewMemoryManager
    /\ story_structure = NewStoryStructure
    /\ last_call = [op |-> "init"]
    /\ result = [success |-> TRUE]
    /\ ops = 0
    /\ loop = IdleLoop

NextObjectives == ops < MaxOps /\ check_scene_objectives /\ UNCHANGED others

SpecObjectives == InitObjectives /\ [][NextObjectives]_vars

----------------------------------------------------------------------------
(* director.establish_story_timeline                                       *)
(* A text built by an f-string is the sequence of its pieces.              *)

\* f"{initial_scene_location} ({time_period})"
SettingText(initial_scene_location, time_period) ==
    <<initial_scene_location, " (", time_period, ")">>

\* the present_characters the initial scene is created with
InitialScenePresentCharacters == << >>

establish_story_timeline(story_beats, initial_scene_location, time_period) ==
    /\ ops' = ops + 1
    /\ last_call' = [op |-> "establish_story_timeline",
                     story_beats |-> story_beats,
                     initial_scene_location |-> initial_scene_location,
                     time_period |-> time_period]
    /\ story_state' = [story_state EXCEPT
                          !.timeline = story_beats,
                          !.setting = SettingText(initial_scene_location, time_period)]
    /\ LET raised == SceneContextPostInit(initial_scene_location,
                                          InitialScenePresentCharacters) IN
       IF raised = "ok"
       THEN /\ current_scene' =
                 [location |-> initial_scene_location, mood |-> "tense",
                  present_characters |-> InitialScenePresentCharacters,
                  scene_objectives |-> <<"Establish setting", "Introduce conflict">>,
                  dramatic_tension_target |-> 40]
            /\ result' = [success |-> TRUE, timeline |-> story_beats]
       ELSE /\ current_scene' = current_scene
            /\ result' = [success |-> FALSE, error |-> raised]
    /\ UNCHANGED <<secrets, memories, relationships, turn_history>>

Timelines == { <<"setup", "climax">>, <<"setup", "confrontation", "resolution">> }

EstablishStoryTimeline ==
    \E story_beats \in Timelines, initial_scene_location \in {"", "office", "docks"},
       time_period \in {"1947", "night"} :
        establish_story_timeline(story_beats, initial_scene_location, time_period)

NextDirector ==
    \/ ops < MaxOps /\ EstablishStoryTimeline /\ UNCHANGED others
    \/ ops < MaxOps /\ CheckStoryProgress /\ UNCHANGED others
    \/ ops < MaxOps /\ StartNewScene /\ UNCHANGED others

SpecDirector == Init /\ [][NextDirector]_vars

----------------------------------------------------------------------------
(* story_tools.StoryStructure: the beat tracker STORY_STRUCTURE.  beats is  *)
(* the dict of the created beats, name -> completion_percent.              *)

beat_order ==
    <<"setup", "inciting_incident", "rising_action", "midpoint", "climax",
      "resolution">>

\* completion_thresholds.get(beat, 0.8)
completion_thresholds(beat) ==
    CASE beat = "setup" -> 80
      [] beat = "inciting_incident" -> 70
      [] beat = "rising_action" -> 60
      [] beat = "midpoint" -> 80
      [] beat = "climax" -> 90
      [] beat = "resolution" -> 100
      [] OTHER -> 80

\* dict assignment: d[key] = value
DictSet(d, key, value) ==
    [k \in DOMAIN d \cup {key} |-> IF k = key THEN value ELSE d[k]]

\* a next beat that asks for no completion
get_next_beat_unconditional(st) ==
    LET current_index == IF InList(st.current_beat, beat_order)
                         THEN IndexOf(beat_order, st.current_beat) ELSE 1
    IN  IF current_index < Len(beat_order)
        THEN beat_order[current_index + 1] ELSE st.current_beat

\* StoryStructure.get_next_beat
get_next_beat(st) ==
    LET current_index == IF InList(st.current_beat, beat_order)
                         THEN IndexOf(beat_order, st.current_beat) ELSE 1
        threshold == completion_thresholds(st.current_beat)
        \* a beat never created counts as StoryBeat("", ""): completion 0.0
        current_completion == IF st.current_beat \in DOMAIN st.beats
                              THEN st.beats[st.current_beat] ELSE 0
    IN  IF current_completion >= threshold /\ current_index < Len(beat_order)
        THEN beat_order[current_index + 1] ELSE st.current_beat

\* create_story_beat: add_beat of a new StoryBeat, completion_percent 0.0
create_story_beat(beat_name) ==
    /\ ops' = ops + 1
    /\ last_call' = [op |-> "create_story_beat", beat_name |-> beat_name]
    /\ story_structure' = [story_structure EXCEPT
                              !.beats = DictSet(@, beat_name, 0)]
    /\ result' = [success |-> TRUE, beat_created |-> beat_name]
    /\ UNCHANGED <<story_state, current_scene, secrets, memories, relationships,
                   turn_history, loop, event_log, scene_manager,
                   scene_transitions, story_memory>>

\* story_tools.advance_story_beat (progression_tools has one of the same name)
structure_advance_story_beat(beat_name, completion_percent) ==
    /\ ops' = ops + 1
    /\ last_call' = [op |-> "structure_advance_story_beat",
                     beat_name |-> beat_name,
                     completion_percent |-> completion_percent]
    /\ IF beat_name \in DOMAIN story_structure.beats
       THEN LET updated == [story_structure EXCEPT
                               !.beats[beat_name] = Min(100, completion_percent)]
            IN  /\ story_structure' =
                     [updated EXCEPT !.current_beat = get_next_beat(updated)]
                /\ result' = [success |-> TRUE,
                              current_beat |-> story_structure'.current_beat]
       ELSE /\ result' = [success |-> FALSE, error |-> "Story beat not found"]
            /\ UNCHANGED story_structure
    /\ UNCHANGED <<story_state, current_scene, secrets, memories, relationships,
                   turn_history, loop, event_log, scene_manager,
                   scene_transitions, story_memory>>

\* the beat names a caller passes: those of beat_order and one that is not
BeatNames == {beat_order[i] : i \in 1..Len(beat_order)} \cup {"finale"}

CreateStoryBeat == \E beat_name \in BeatNames : create_story_beat(beat_name)

AdvanceStructureBeat ==
    \E beat_name \in BeatNames : \E completion_percent \in {80, 150} :
        structure_advance_story_beat(beat_name, completion_percent)

\* the calls on one tracker
MaxStructureOps == 6

\* a new tracker, or one on which the six beats of beat_order were created
InitStoryStructure ==
    /\ story_state = NewStoryState("mystery", "setup")
    /\ current_scene = None
    /\ secrets = InitialSecrets
    /\ memories = [c \in Registry |-> << >>]
    /\ relationships = << >>
    /\ turn_history = << >>
    /\ event_log = << >>
    /\ scene_manager = NewSceneManager
    /\ scene_transitions = << >>
    /\ story_memory = NewMemoryManager
    /\ story_structure \in
          { NewStoryStructure,
            [NewStoryStructure EXCEPT
                !.beats = [b \in BeatNames \ {"finale"} |-> 0]] }
    /\ last_call = [op |-> "init"]
    /\ result = [success |-> TRUE]
    /\ ops = 0
    /\ loop = IdleLoop

NextStoryStructure ==
    \/ ops < MaxStructureOps /\ CreateStoryBeat
    \/ ops < MaxStructureOps /\ AdvanceStructureBeat

SpecStoryStructure == InitStoryStructure /\ [][NextStoryStructure]_vars

----------------------------------------------------------------------------
(* Properties.                                                             *)

\* C1: after any sequence of state-changing operations, with any numeric
\* arguments, each of the five story metrics is in [0.0, 1.0].
MetricsInUnitRange ==
    /\ story_state.dramatic_tension \in 0..100
    /\ story_state.setup_progress \in 0..100
    /\ story_state.conflict_progress \in 0..100
    /\ story_state.character_arc_progress \in 0..100
    /\ story_state.resolution_readiness \in 0..100

\* C2: every successful turn appends one TurnRecord numbered one more than
\* the turn before it, so after a successful turn the log is not empty and
\* its last record carries the number of records.
SuccessfulTurnIsRecorded ==
    (last_call.op = "manage_character_turn" /\ result.success)
        => /\ turn_history # << >>
           /\ turn_history[Len(turn_history)].turn_number = Len(turn_history)

\* C3: start_new_scene with a present-character id that is not registered
\* returns a failure naming exactly the missing ids, and the active scene
\* (or its absence) and the story metrics are as before the call.
StartWithMissingCharacterChangesNothing ==
    [][ (/\ last_call'.op = "start_new_scene"
         /\ \E i \in 1..Len(last_call'.present_characters) :
               last_call'.present_characters[i] \notin Registry)
        => /\ "success" \in DOMAIN result'
           /\ result'.success = FALSE
           /\ \A c \in CharIds :
                 InList(c, result'.missing)
                    <=> (c \notin Registry /\ InList(c, last_call'.present_characters))
           /\ current_scene' = current_scene
           /\ story_state' = story_state ]_vars

StartWithMissingCharacterWitness ==
    /\ last_call.op = "start_new_scene"
    /\ last_call.present_characters = <<"b", "x">>
    /\ result = [success |-> FALSE, error |-> "Characters not found",
                 missing |-> <<"x">>]
    /\ current_scene # None

\* C4: a turn fails when no scene is active, when the character is unknown
\* or not present in the active scene, or when a target is given that is
\* not present; the story metrics and the turn history are then unchanged.
RefusedTurnChangesNothing ==
    [][ (/\ last_call'.op = "manage_character_turn"
         /\ \/ current_scene = None
            \/ last_call'.character_id \notin Registry
            \/ ~InList(last_call'.character_id, current_scene.present_characters)
            \/ /\ last_call'.target_character # ""
               /\ ~InList(last_call'.target_character,
                          current_scene.present_characters))
        => /\ result'.success = FALSE
           /\ story_state' = story_state
           /\ turn_history' = turn_history
           /\ current_scene' = current_scene ]_vars

RefusedTurnWitness ==
    /\ last_call.op = "manage_character_turn"
    /\ last_call.character_id = "a"
    /\ last_call.target_character = "c"
    /\ current_scene # None
    /\ InList("a", current_scene.present_characters)
    /\ ~InList("c", current_scene.present_characters)
    /\ result = [success |-> FALSE, error |-> "Target character not in scene"]

\* C5: every operation that takes a character id as actor or as target
\* returns a structured failure and changes no story, scene, memory or
\* relationship state when that id is not in the registry.
UnknownIdIsRefused ==
    [][ LET call == last_call'
            unknown(id) == id # "" /\ id \notin Registry
        IN  (\/ /\ call.op \in {"manage_character_turn", "express_emotion",
                                "reveal_character_secret"}
                /\ (call.character_id \notin Registry
                    \/ unknown(call.target_character))
             \/ /\ call.op = "take_character_action"
                /\ (call.character_id \notin Registry \/ unknown(call.target))
             \/ /\ call.op = "update_character_relationship"
                /\ (call.character_id \notin Registry
                    \/ call.other_character_id \notin Registry))
            => /\ result'.success = FALSE
               /\ UNCHANGED <<story_state, current_scene, secrets, memories,
                              relationships>> ]_vars

\* C6: no validation error escapes as an exception: every operation given
\* invalid input returns a structured result.
NoExceptionEscapes == "exception" \notin DOMAIN result

\* C7: for every genre, once current_beat is the last beat of the genre's
\* progression, every further advance returns false and leaves the beat
\* and the five metrics unchanged.
AdvanceAtLastBeatChangesNothing ==
    [][ (/\ last_call'.op = "advance_story_beat"
         /\ story_state.current_beat =
               get_story_progression(story_state.genre)
                   [Len(get_story_progression(story_state.genre))])
        => /\ result'.success = FALSE
           /\ story_state' = story_state ]_vars

AdvanceAtLastBeatWitness ==
    /\ last_call.op = "advance_story_beat"
    /\ result.success = FALSE
    /\ story_state.current_beat = "resolution"
    /\ ops >= 2

\* C8: from "setup" on the default 8-beat progression, advance calls 1 to 7
\* each succeed and move one beat forward in list order; calls 8, 9 and 10
\* return failure and the beat stays "resolution".
TenAdvancesFromSetup ==
    /\ ops = 0 => story_state.current_beat = "setup"
    /\ ops \in 1..7 => /\ result.success
                       /\ story_state.current_beat = default_progression[ops + 1]
    /\ ops >= 8 => /\ ~result.success
                   /\ story_state.current_beat = "resolution"

TenAdvancesWitness ==
    /\ ops = 10
    /\ last_call.op = "advance_story_beat"
    /\ ~result.success
    /\ story_state.current_beat = "resolution"

\* C9: after any sequence of relationship updates, direct ones and those a
\* stored memory causes, every stored score is in [-1.0, 1.0], and the
\* score of a pair that was never updated reads as exactly 0.0.
RelationshipScoresInRange ==
    /\ \A p \in DOMAIN relationships : relationships[p] \in -100..100
    /\ \A a \in CharIds : \A b \in CharIds :
          <<a, b>> \notin DOMAIN relationships
             => RelationshipScore(relationships, a, b) = 0
    /\ (last_call.op = "update_character_relationship" /\ result.success)
          => result.new_relationship_score \in -100..100

RelationshipScoresWitness ==
    /\ last_call.op = "update_character_relationship"
    /\ last_call.opinion_change = 300
    /\ result.success
    /\ relationships[<<"b", "a">>] = 100
    /\ <<"a", "c">> \notin DOMAIN relationships

\* C10: the coordinator loop always terminates: from any starting story,
\* whatever the generator returns or raises, it runs at most
\* max_interactions iterations and then stops.
CoordinatorLoopTerminates ==
    /\ [](/\ loop.iterations <= loop.max_interactions
          /\ loop.generator_calls <= loop.max_interactions)
    /\ <>[](loop.pc = "done")

CoordinatorLoopWitness ==
    /\ loop.pc = "done"
    /\ loop.coordinator = "simulation"
    /\ loop.agents # {}
    /\ loop.max_interactions = DefaultMaxInteractions
    /\ loop.iterations = DefaultMaxInteractions

\* C11: the coordinator loop ends, with no further generator call, as soon
\* as resolution_readiness >= 0.8, or conflict_progress >= 0.9 and
\* character_arc_progress >= 0.7 after the minimum number of turns, holds
\* at its completion check; below these thresholds the metrics alone never
\* end the loop.
LoopEndsExactlyAtThresholds ==
    [][ (loop.pc = "loop" /\ loop.interaction_count < loop.max_interactions)
        => LET checked == IF loop.coordinator = "simulation"
                          THEN story_state ELSE story_state'
               thresholds ==
                   \/ checked.resolution_readiness >= 80
                   \/ /\ checked.conflict_progress >= 90
                      /\ checked.character_arc_progress >= 70
                      /\ loop.interaction_count >= 15
           IN  /\ thresholds => loop'.pc = "done"
               /\ (thresholds /\ loop.coordinator = "simulation")
                     => loop'.generator_calls = loop.generator_calls
               /\ loop'.stop = "completion" => thresholds ]_vars

\* C12: the coordinator loop stops only when the turn budget is exhausted
\* or a metric completion condition holds.
LoopStopsOnlyOnBudgetOrCompletion ==
    loop.pc = "done" => loop.stop \in {"budget", "completion"}

\* C13: when the generator call fails, the trait-list fallback string is
\* substituted and processed as the turn's response, the turn is recorded
\* and counted, and the loop continues.
FailedGenerationUsesTraitFallback ==
    [][ (loop'.iterations = loop.iterations + 1 /\ loop'.failed)
        => /\ loop'.response = "traits"
           /\ loop'.story_events = loop.story_events + 1
           /\ loop'.interaction_count = loop.interaction_count + 1
           /\ loop'.pc = "loop" ]_vars

\* C13, as the code has it: when the generator call of the engine fails, the
\* fixed string "<name> considers the situation carefully..." is the turn's
\* response (the trait-list string is the response of a character without
\* an AI agent, which makes no call), the turn is recorded, and the loop
\* goes on with the turn counted unless the metrics after that turn meet a
\* completion condition.
FailedGenerationUsesFixedFallback ==
    [][ (/\ loop.coordinator = "engine"
         /\ loop'.iterations = loop.iterations + 1
         /\ loop'.failed)
        => /\ loop'.response = "considers"
           /\ loop'.generator_calls = loop.generator_calls + 1
           /\ loop'.story_events = loop.story_events + 1
           /\ \/ /\ loop'.pc = "loop"
                 /\ loop'.interaction_count = loop.interaction_count + 1
              \/ /\ loop'.pc = "done"
                 /\ loop'.stop = "completion" ]_vars

FailedGenerationWitness ==
    /\ loop.coordinator = "engine"
    /\ loop.failed
    /\ loop.response = "considers"
    /\ loop.pc = "loop"
    /\ loop.interaction_count = 3
    /\ loop.story_events = 3

RestartedSceneCountsTurnsFromOne ==
    (ops = 3 /\ last_call.op = "manage_character_turn" /\ result.success)
        => /\ Len(turn_history) = 1
           /\ turn_history[1].turn_number = 1
           /\ "turn_number" \in DOMAIN result
           /\ result.turn_number = 1

\* C16: injecting a "betrayal" at beat "climax" with tension 0.75 leaves the
\* tension strictly above 0.75 and at most 1.0, whatever delta is drawn, and
\* appends exactly one DramaticEvent of type "betrayal" to the event log.
BetrayalAtClimaxRaisesTensionAndIsLogged ==
    [][ (/\ story_state.current_beat = "climax"
         /\ story_state.dramatic_tension = 75
         /\ last_call'.op = "inject_random_event"
         /\ last_call'.event_type = "betrayal")
        => /\ story_state'.dramatic_tension > 75
           /\ story_state'.dramatic_tension <= 100
           /\ Len(event_log') = Len(event_log) + 1
           /\ event_log'[Len(event_log')].event_type = "betrayal" ]_vars

\* C17: a transition that fails changes nothing: the active scene, the scene
\* history and the transition log are as before it, so the scene it was to
\* leave is not archived.
FailedTransitionChangesNothing ==
    [][ (/\ ops' = ops + 1
         /\ scene_manager'.workflow = "transition_to_new_scene"
         /\ ~result'.success)
        => /\ scene_manager'.current_scene = scene_manager.current_scene
           /\ scene_manager'.scene_history = scene_manager.scene_history
           /\ current_scene' = current_scene
           /\ scene_transitions' = scene_transitions ]_vars

\* C18: a transition that succeeds archives the scene it leaves, makes the
\* new scene the active one, appends exactly one SceneTransition record, and
\* the present characters of the new scene are its own together with the
\* characters carried over, each of them once.
SuccessfulTransitionCarriesCharacters ==
    [][ (/\ ops' = ops + 1
         /\ scene_manager'.workflow = "transition_to_new_scene"
         /\ result'.success)
        => /\ scene_manager'.scene_history =
                 Append(scene_manager.scene_history, scene_manager.current_scene)
           /\ scene_manager'.current_scene # None
           /\ Len(scene_transitions') = Len(scene_transitions) + 1
           /\ LET present == scene_manager'.current_scene.present_characters
              IN  /\ { present[i] : i \in 1..Len(present) }
                       = { last_call'.present_characters[i] :
                             i \in 1..Len(last_call'.present_characters) }
                         \cup { scene_manager'.characters_to_carry[i] :
                                  i \in 1..Len(scene_manager'.characters_to_carry) }
                  /\ \A i, j \in 1..Len(present) :
                        present[i] = present[j] => i = j ]_vars

\* the number of times x is in the list s
Count(s, x) == Cardinality({ i \in 1..Len(s) : s[i] = x })

\* C19: the secrets of a character only shrink: no operation adds one; a
\* successful reveal takes exactly the revealed secret, once, from the list
\* of the revealing character and nothing else from any list; a reveal of a
\* secret the character does not hold fails and leaves the secrets and the
\* tension as they were.
SecretsOnlyShrink ==
    [][ /\ \A c \in Registry : \A x \in SecretNames :
              Count(secrets'[c], x) <= Count(secrets[c], x)
        /\ (last_call'.op = "reveal_character_secret" /\ ops' = ops + 1)
             => LET c == last_call'.character_id
                    x == last_call'.secret
                IN  IF c \in Registry /\ Count(secrets[c], x) > 0
                    THEN /\ result'.success
                         /\ Count(secrets'[c], x) = Count(secrets[c], x) - 1
                         /\ Len(secrets'[c]) = Len(secrets[c]) - 1
                         /\ \A d \in Registry \ {c} : secrets'[d] = secrets[d]
                    ELSE /\ ~result'.success
                         /\ secrets' = secrets
                         /\ story_state' = story_state ]_vars

SecretsOnlyShrinkWitness ==
    /\ last_call.op = "reveal_character_secret"
    /\ last_call.character_id = "a"
    /\ last_call.secret = "s1"
    /\ result.success
    /\ secrets["a"] = <<"s2">>
    /\ secrets["b"] = <<"s2">>

\* C20: the memory log of every owner is append-only: whatever operation of
\* the store is called, the log an owner had before it is a prefix of the log
\* the owner has after it, so no entry is removed or rewritten.
MemoryLogIsAppendOnly ==
    [][ \A c \in CharIds :
          LET before == story_memory.character_memories[c]
              after == story_memory'.character_memories[c]
          IN  /\ Len(after) >= Len(before)
              /\ SubSeq(after, 1, Len(before)) = before ]_vars

\* the beats of every genre's progression: the three tables and the default
\* list hold the same eight beats
ProgressionBeats ==
    {"setup", "inciting_incident", "first_plot_point", "rising_action",
     "midpoint", "second_plot_point", "climax", "resolution"}

\* C21: set_story_beat(name) succeeds exactly when name is a beat of the
\* genre's progression; then current_beat is name and the metrics are those
\* the per-beat table gives on the metrics before the call; for any other
\* name, "falling_action" included, it fails and the beat and every metric
\* are as before.
SetBeatAcceptsOnlyProgressionBeats ==
    [][ (last_call'.op = "set_story_beat" /\ ops' = ops + 1)
        => IF last_call'.beat \in ProgressionBeats
           THEN /\ result'.success
                /\ story_state'.current_beat = last_call'.beat
                /\ story_state' =
                     UpdateProgressionMetrics(
                         [story_state EXCEPT !.current_beat = last_call'.beat],
                         last_call'.beat)
           ELSE /\ ~result'.success
                /\ story_state' = story_state ]_vars

SetBeatWitness ==
    /\ last_call.op = "set_story_beat"
    /\ last_call.beat = "falling_action"
    /\ ~result.success
    /\ story_state.current_beat = "climax"
    /\ story_state.resolution_readiness = 80

\* a step that is a call of the tool named op
Called(op) == last_call'.op = op /\ ops' = ops + 1

\* the story state with the end-of-scene bumps for a scene of this target
BumpedAtEnd(st, target) ==
    [st EXCEPT !.setup_progress = Min(100, @ + 30),
               !.resolution_readiness =
                   IF target >= 70 THEN Min(100, @ + 20) ELSE @]

\* C22 as stated: every successful end_current_scene, whatever its
\* completion_status, adds 0.3 to setup_progress (capped), adds 0.2 to
\* resolution_readiness (capped) exactly when the scene's tension target was
\* at least 0.7, and leaves no active scene; with no active scene the call
\* fails and changes nothing.
EndSceneBumpsWhateverTheStatus ==
    [][ Called("end_current_scene")
        => IF current_scene = None
           THEN /\ ~result'.success
                /\ story_state' = story_state
                /\ current_scene' = None
           ELSE /\ result'.success
                /\ current_scene' = None
                /\ story_state' =
                     BumpedAtEnd(story_state,
                                 current_scene.dramatic_tension_target) ]_vars

\* C22: every successful end_current_scene leaves no active scene; when its
\* completion_status is "complete" it adds 0.3 to setup_progress (capped)
\* and, exactly when the scene's tension target was at least 0.7, 0.2 to
\* resolution_readiness (capped); with any other completion_status it
\* changes no metric; with no active scene the call fails and changes
\* nothing.
EndSceneBumpsOnlyWhenComplete ==
    [][ Called("end_current_scene")
        => IF current_scene = None
           THEN /\ ~result'.success
                /\ story_state' = story_state
                /\ current_scene' = None
           ELSE /\ result'.success
                /\ current_scene' = None
                /\ story_state' =
                     IF last_call'.completion_status = "complete"
                     THEN BumpedAtEnd(story_state,
                                      current_scene.dramatic_tension_target)
                     ELSE story_state ]_vars

\* a scene of target 0.8 ended as "interrupted": no metric moved
EndSceneInterruptedWitness ==
    /\ last_call.op = "end_current_scene"
    /\ last_call.completion_status = "interrupted"
    /\ result.success
    /\ current_scene = None
    /\ story_state.dramatic_tension = 80
    /\ story_state.setup_progress = 0
    /\ story_state.resolution_readiness = 0

\* the tension a turn of each interaction type adds, in hundredths
TurnTensionTable ==
    [t \in {"revelation", "confrontation", "accusation", "confession",
            "dialogue", "investigation"} |->
        CASE t = "revelation" -> 25
          [] t = "confrontation" -> 30
          [] t = "accusation" -> 35
          [] t = "confession" -> 40
          [] t = "dialogue" -> 5
          [] t = "investigation" -> 10]

\* C23: a successful manage_character_turn adds to dramatic_tension the
\* table value of its interaction type (0.05 for a type not in the table),
\* capped at 1.0, adds 0.15 to character_arc_progress, capped at 1.0,
\* exactly when the type is revelation, confrontation or confession, and
\* changes no other metric and not the scene.
TurnAppliesTensionTable ==
    [][ (Called("manage_character_turn") /\ result'.success)
        => LET t == last_call'.interaction_type
               add == IF t \in DOMAIN TurnTensionTable
                      THEN TurnTensionTable[t] ELSE 5
           IN  /\ story_state' =
                    [story_state EXCEPT
                       !.dramatic_tension = Min(100, @ + add),
                       !.character_arc_progress =
                           IF t \in {"revelation", "confrontation", "confession"}
                           THEN Min(100, @ + 15) ELSE @]
               /\ current_scene' = current_scene ]_vars

\* an accusation from tension 0.6 that left 0.95 and no arc progress
TurnAccusationWitness ==
    /\ last_call.op = "manage_character_turn"
    /\ last_call.interaction_type = "accusation"
    /\ result.success
    /\ story_state.dramatic_tension = 95
    /\ story_state.character_arc_progress = 0

ProgressMetrics ==
    {"setup_progress", "conflict_progress", "character_arc_progress",
     "resolution_readiness"}

\* metrics_by_beat: the metrics each beat's row names, and their values
BeatRow(beat) ==
    CASE beat = "setup" ->
           [m \in {"setup_progress", "conflict_progress"} |->
               IF m = "setup_progress" THEN 80 ELSE 10]
      [] beat = "inciting_incident" ->
           [m \in {"setup_progress", "conflict_progress"} |->
               IF m = "setup_progress" THEN 100 ELSE 30]
      [] beat = "first_plot_point" ->
           [m \in {"conflict_progress", "character_arc_progress"} |->
               IF m = "conflict_progress" THEN 50 ELSE 20]
      [] beat = "rising_action" ->
           [m \in {"conflict_progress", "character_arc_progress"} |->
               IF m = "conflict_progress" THEN 70 ELSE 40]
      [] beat = "midpoint" ->
           [m \in {"conflict_progress", "character_arc_progress"} |->
               IF m = "conflict_progress" THEN 80 ELSE 60]
      [] beat = "second_plot_point" ->
           [m \in {"conflict_progress", "character_arc_progress"} |->
               IF m = "conflict_progress" THEN 90 ELSE 80]
      [] beat = "climax" ->
           [m \in {"conflict_progress", "character_arc_progress",
                   "resolution_readiness"} |->
               IF m = "conflict_progress" THEN 100
               ELSE IF m = "character_arc_progress" THEN 90 ELSE 80]
      [] beat = "falling_action" -> [m \in {"resolution_readiness"} |-> 90]
      [] beat = "resolution" -> [m \in {"resolution_readiness"} |-> 100]
      [] OTHER -> [m \in {} |-> 0]

\* the value of metric m after beat is reached from the story st
MetricAfterBeat(st, beat, m) ==
    IF m \in DOMAIN BeatRow(beat) THEN BeatRow(beat)[m] ELSE st[m]

\* a step that is a successful advance_story_beat or set_story_beat
BeatReached ==
    /\ Called("advance_story_beat") \/ Called("set_story_beat")
    /\ result'.success

RECURSIVE MetricOnWalk(_, _, _)
\* the value of metric m when a new story has advanced, beat by beat, to the
\* i-th beat of the progression
MetricOnWalk(progression, i, m) ==
    IF i = 0 THEN 0
    ELSE IF m \in DOMAIN BeatRow(progression[i]) THEN BeatRow(progression[i])[m]
    ELSE MetricOnWalk(progression, i - 1, m)

AdjustAndSetTensionClamp ==
    [][ /\ Called("adjust_dramatic_tension")
           => story_state'.dramatic_tension =
                 Min(100, Max(0, story_state.dramatic_tension + last_call'.change))
        /\ Called("set_dramatic_tension")
           => story_state'.dramatic_tension =
                 Min(100, Max(0, last_call'.tension)) ]_vars

\* C25: adjust_dramatic_tension clamps: for any change the tension becomes
\* min(1, max(0, old + change)); set_dramatic_tension(value) stores the
\* value when it lies in [0, 1], and for a value below 0 or above 1 it
\* fails and leaves the tension as it was.
AdjustClampsAndSetRefuses ==
    [][ /\ Called("adjust_dramatic_tension")
           => /\ result'.success
              /\ story_state' =
                   [story_state EXCEPT !.dramatic_tension =
                       Min(100, Max(0, @ + last_call'.change))]
        /\ Called("set_dramatic_tension")
           => IF 0 <= last_call'.tension /\ last_call'.tension <= 100
              THEN /\ result'.success
                   /\ story_state' =
                        [story_state EXCEPT
                            !.dramatic_tension = last_call'.tension]
              ELSE /\ ~result'.success
                   /\ story_state' = story_state ]_vars

\* set_dramatic_tension(1.5) refused at tension 0.45
SetTensionRefusedWitness ==
    /\ last_call.op = "set_dramatic_tension"
    /\ last_call.tension = 150
    /\ ~result.success
    /\ story_state.dramatic_tension = 45

\* C26: auto_adjust_tension_for_beat, at any beat and any tension: a tension
\* below the minimum or above the maximum of the beat's recommended band is
\* set to the middle of the band, any other tension is left as it is, and
\* nothing else of the story changes; so after the call the tension lies
\* within the band of the current beat ((0.3, 0.7) for a beat not in the
\* table).
AutoAdjustPutsTensionInBand ==
    [][ Called("auto_adjust_tension_for_beat")
        => LET range == get_recommended_tension_range(story_state.current_beat)
               t == story_state.dramatic_tension
           IN  /\ result'.success
               /\ story_state' =
                    [story_state EXCEPT !.dramatic_tension =
                        IF t < range[1] \/ t > range[2]
                        THEN (range[1] + range[2]) \div 2 ELSE t]
               /\ range[1] <= story_state'.dramatic_tension
               /\ story_state'.dramatic_tension <= range[2] ]_vars

\* at "setup" the tension 0.5 of a new story was above the band (0.1, 0.3)
\* and is now 0.2
AutoAdjustWitness ==
    /\ last_call.op = "auto_adjust_tension_for_beat"
    /\ result.success
    /\ story_state.current_beat = "setup"
    /\ story_state.dramatic_tension = 20

\* "w in objective" of two Python strings, on the objective texts of
\* StartRequests: a text contains itself, and "Begin investigation" contains
\* "investigation"
ObjectiveContains(objective, w) ==
    \/ objective = w
    \/ objective = "Begin investigation" /\ w = "investigation"

\* some objective of the list contains one of the words as a substring
AnyObjectiveContains(scene_objectives, words) ==
    \E i \in 1..Len(scene_objectives) :
        \E w \in words : ObjectiveContains(scene_objectives[i], w)

\* C27: a successful start_new_scene sets dramatic_tension to the scene's
\* tension target, adds 0.2 to conflict_progress (capped) when some objective
\* contains "investigation", "interrogation" or "search" as a substring, and
\* adds 0.3 to resolution_readiness (capped) when some objective contains
\* "resolution", "confession" or "reveal" as a substring; the objective
\* "Begin investigation" triggers the conflict_progress bump.
StartSceneBumpsOnSubstring ==
    [][ (/\ Called("start_new_scene")
         /\ "success" \in DOMAIN result'
         /\ result'.success)
        => /\ story_state'.dramatic_tension = last_call'.target
           /\ AnyObjectiveContains(last_call'.scene_objectives,
                                   {"investigation", "interrogation", "search"})
              => story_state'.conflict_progress =
                    Min(100, story_state.conflict_progress + 20)
           /\ AnyObjectiveContains(last_call'.scene_objectives,
                                   {"resolution", "confession", "reveal"})
              => story_state'.resolution_readiness =
                    Min(100, story_state.resolution_readiness + 30) ]_vars

\* the update r changes the mood of the scene
MoodChanges(scene, r) == r.mood # "" /\ r.mood # scene.mood

\* C28 as stated: update_scene_context fails and changes nothing when no
\* scene is active; on the active scene, whenever the mood changes to a mood
\* of the table the tension after the call is that mood's table value,
\* whatever it was before, and when it changes to a mood not in the table
\* the tension is as before.
MoodChangeDecidesTension ==
    [][ Called("update_scene_context")
        => IF current_scene = None
           THEN /\ ~result'.success
                /\ story_state' = story_state
                /\ current_scene' = None
           ELSE /\ result'.success
                /\ MoodChanges(current_scene, last_call'.request)
                   => story_state'.dramatic_tension =
                        IF MoodTension(last_call'.request.mood) # -1
                        THEN MoodTension(last_call'.request.mood)
                        ELSE story_state.dramatic_tension ]_vars

\* C28: update_scene_context fails and changes nothing when no scene is
\* active; on the active scene a call that gives a tension target leaves the
\* tension at that target; a call that gives none leaves it at the table
\* value of the new mood when the mood changes to a mood of the table,
\* whatever it was before, and as it was otherwise (a mood not in the table
\* included); no other metric changes.
MoodChangeDecidesTensionUnlessTargetGiven ==
    [][ Called("update_scene_context")
        => IF current_scene = None
           THEN /\ ~result'.success
                /\ story_state' = story_state
                /\ current_scene' = None
           ELSE LET r == last_call'.request IN
                /\ result'.success
                /\ story_state' =
                     [story_state EXCEPT !.dramatic_tension =
                        IF r.has_target THEN r.target
                        ELSE IF MoodChanges(current_scene, r)
                                /\ MoodTension(r.mood) # -1
                        THEN MoodTension(r.mood)
                        ELSE @] ]_vars

\* mood "peaceful" (0.2) and target 0.6 in one call: the target stays
MoodAndTargetWitness ==
    /\ last_call.op = "update_scene_context"
    /\ result.success
    /\ last_call.request.mood = "peaceful"
    /\ last_call.request.has_target
    /\ current_scene # None
    /\ current_scene.mood = "peaceful"
    /\ story_state.dramatic_tension = 60

\* C29: coordinate_character_dialogue succeeds exactly when
\* manage_character_turn with the same speaker and target would pass its
\* validation, so it fails for a speaker or a target that is not in the
\* active scene; on success and on failure alike it appends no TurnRecord
\* and changes no metric: the turn history, the story state and the scene
\* are the same before and after the call.
DialogueValidatesLikeATurnAndWritesNothing ==
    [][ Called("coordinate_character_dialogue")
        => /\ result'.success
              <=> TurnError(current_scene, last_call'.speaking_character,
                            last_call'.target_character) = ""
           /\ (/\ current_scene # None
               /\ \/ ~InList(last_call'.speaking_character,
                             current_scene.present_characters)
                  \/ /\ last_call'.target_character # ""
                     /\ ~InList(last_call'.target_character,
                                current_scene.present_characters))
              => ~result'.success
           /\ turn_history' = turn_history
           /\ story_state' = story_state
           /\ current_scene' = current_scene ]_vars

\* a line of dialogue routed from "a" to "b" right after a dialogue turn: the
\* turn took the tension from 0.6 to 0.65, the routing left it there
DialogueWitness ==
    /\ last_call.op = "coordinate_character_dialogue"
    /\ last_call.target_character = "b"
    /\ result.success
    /\ current_scene # None
    /\ story_state.dramatic_tension = 65

\* the smallest number of a nonempty set of numbers
Least(S) == CHOOSE i \in S : \A j \in S : i <= j

\* what an escalation that selects the events numbered in M does: none
\* selected, it fails and the log stays; otherwise one event derived from the
\* first of them is appended and the logged events stay as they are
EscalatesFirstOf(M) ==
    IF M = {}
    THEN /\ ~result'.success
         /\ event_log' = event_log
    ELSE LET original == event_log[Least(M)]
             derived == event_log'[Len(event_log')]
         IN  /\ result'.success
             /\ Len(event_log') = Len(event_log) + 1
             /\ SubSeq(event_log', 1, Len(event_log)) = event_log
             /\ derived.intensity = Min(100, original.intensity + 20)
             /\ derived.affected_characters = original.affected_characters

\* C30 as stated: escalate_existing_conflict selects the first logged event
\* whose id equals conflict_id or whose description contains conflict_id as
\* a substring, and appends exactly one derived event with intensity
\* min(1, original intensity + 0.2) and the same affected characters,
\* leaving the original unchanged; when no logged event matches it fails and
\* the log is unchanged.
EscalateSelectsBySubstring ==
    [][ Called("escalate_existing_conflict")
        => EscalatesFirstOf(
              { i \in 1..Len(event_log) :
                  \/ event_log[i].event_id = last_call'.conflict_id
                  \/ IsInfix(last_call'.conflict_id,
                             event_log[i].description) }) ]_vars

\* C30: escalate_existing_conflict selects the first logged event whose id
\* equals conflict_id or whose description, put in lower case, contains
\* conflict_id as a substring, and appends exactly one derived event with
\* intensity min(1, original intensity + 0.2) and the same affected
\* characters, leaving the original unchanged; when no logged event matches
\* in that way it fails and the log is unchanged.
EscalateSelectsByLowerCasedSubstring ==
    [][ Called("escalate_existing_conflict")
        => EscalatesFirstOf(
              { i \in 1..Len(event_log) :
                  \/ event_log[i].event_id = last_call'.conflict_id
                  \/ IsInfix(last_call'.conflict_id,
                             Lower(event_log[i].description)) }) ]_vars

\* "ab" escalated the first of two events described "Ab": the one of
\* intensity 0.9 for "b" and "c", not the later one of 0.3 for "a"
EscalateWitness ==
    /\ last_call.op = "escalate_existing_conflict"
    /\ last_call.conflict_id = <<"a", "b">>
    /\ result.success
    /\ Len(event_log) = 3
    /\ event_log[1].description = <<"A", "b">>
    /\ event_log[1].intensity = 90
    /\ event_log[1].affected_characters = <<"b", "c">>
    /\ event_log[2].description = <<"A", "b">>
    /\ event_log[2].intensity = 30
    /\ event_log[2].affected_characters = <<"a">>
    /\ event_log[3].intensity = 100
    /\ event_log[3].affected_characters = <<"b", "c">>

\* in this step the owner a stored a memory that lists b as a participant
StoredMemoryWith(a, b) ==
    /\ a \in Registry
    /\ \E i \in (Len(memories[a]) + 1)..Len(memories'[a]) :
          InList(b, memories'[a][i].participants)

\* C31: relationship updates are one-directional: the score of a directed
\* pair (a, b) changes in a step only when a updates its relationship
\* towards b directly or a stores a memory with b as a participant; a
\* direct update of a towards b changes the score of no pair but (a, b),
\* that of (b, a) included.
RelationshipUpdatesAreOneDirectional ==
    [][ /\ \A a \in CharIds : \A b \in CharIds :
             RelationshipScore(relationships', a, b)
                # RelationshipScore(relationships, a, b)
             => \/ /\ Called("update_character_relationship")
                   /\ last_call'.character_id = a
                   /\ last_call'.other_character_id = b
                \/ StoredMemoryWith(a, b)
        /\ Called("update_character_relationship")
           => \A a \in CharIds : \A b \in CharIds :
                 <<a, b>> # <<last_call'.character_id,
                              last_call'.other_character_id>>
                 => RelationshipScore(relationships', a, b)
                       = RelationshipScore(relationships, a, b) ]_vars

\* a towards b was moved by 0.5 and then by the -0.05 of the stored memory;
\* the score of b towards a was never written
OneDirectionalWitness ==
    /\ last_call.op = "update_character_relationship"
    /\ last_call.character_id = "a"
    /\ last_call.other_character_id = "b"
    /\ result.success
    /\ RelationshipScore(relationships, "a", "b") = 45
    /\ <<"b", "a">> \notin DOMAIN relationships

\* the progress source the first matching rule picks for the text searched,
\* in thirds of a hundredth
ProgressByFirstRule(text, st) ==
    CASE IsInfix(WordInvestigation, text) -> 3 * st.conflict_progress
      [] ~IsInfix(WordInvestigation, text)
         /\ (IsInfix(WordInterrogation, text) \/ IsInfix(WordQuestion, text))
           -> 3 * st.character_arc_progress
      [] ~IsInfix(WordInvestigation, text)
         /\ ~(IsInfix(WordInterrogation, text) \/ IsInfix(WordQuestion, text))
         /\ (IsInfix(WordResolution, text) \/ IsInfix(WordReveal, text))
           -> 3 * st.resolution_readiness
      [] OTHER -> st.setup_progress + st.conflict_progress
                     + st.character_arc_progress

\* a check that changed nothing and answered with these progress values, the
\* completion being their mean (the quotient total / count), 0.0 for none
ObjectivesAnswered(progress) ==
    /\ result'.success
    /\ result'.progress = progress
    /\ result'.count = Len(progress)
    /\ result'.total = SumSeq(progress)
    /\ Len(progress) = 0 => result'.total = 0
    /\ story_state' = story_state
    /\ current_scene' = current_scene

\* C32 as stated: check_scene_objectives changes no state and picks the
\* progress source of each objective by the first rule whose word the
\* objective contains: "investigation" -> conflict_progress;
\* "interrogation" or "question" -> character_arc_progress; "resolution" or
\* "reveal" -> resolution_readiness; otherwise the mean of setup, conflict
\* and character-arc progress; the completion of the scene is the mean of
\* these values, 0.0 for a scene with no objectives.
ObjectivesUseFirstRuleOnTheText ==
    [][ (Called("check_scene_objectives") /\ current_scene # None)
        => ObjectivesAnswered(
              [i \in 1..Len(current_scene.scene_objectives) |->
                  ProgressByFirstRule(current_scene.scene_objectives[i],
                                      story_state)]) ]_vars

\* C32: the same, the words being looked for in the objective put in lower
\* case, so that an objective contains a word in whatever letter case it
\* writes it.
ObjectivesUseFirstRuleOnTheLowerCasedText ==
    [][ (Called("check_scene_objectives") /\ current_scene # None)
        => ObjectivesAnswered(
              [i \in 1..Len(current_scene.scene_objectives) |->
                  ProgressByFirstRule(Lower(current_scene.scene_objectives[i]),
                                      story_state)]) ]_vars

\* "Question" took the character-arc progress 0.9 and "reveal" the
\* resolution readiness 0.8: the completion is (0.9 + 0.8) / 2
ObjectivesWitness ==
    /\ last_call.op = "check_scene_objectives"
    /\ result.success
    /\ result.progress = <<270, 240>>
    /\ result.total = 510
    /\ result.count = 2
    /\ story_state.setup_progress = 0
    /\ story_state.conflict_progress = 10

\* C33: in MovieSimulation.run_autonomous_storytelling_loop every iteration
\* in which a character agent exists and the completion check is false
\* selects an actor and calls the generator once for it, the first
\* iterations, when no character has acted yet, included.
EveryIterationCallsTheGenerator ==
    [][ (/\ loop.coordinator = "simulation"
         /\ loop'.iterations = loop.iterations + 1
         /\ loop.agents # {}
         /\ ~check_story_completion(story_state))
        => /\ loop'.generator_calls = loop.generator_calls + 1
           /\ loop'.active_char_id \in loop.agents ]_vars

\* C34: in SceneManagerAgent, after any sequence of start_new_scene_workflow,
\* transition_to_new_scene and end_current_scene_workflow calls, failing ones
\* included, each scene is at most once in scene_history and the current
\* scene is not an element of scene_history.
SceneHistoryHoldsEachSceneOnce ==
    LET history == scene_manager.scene_history IN
    /\ \A i, j \in 1..Len(history) : history[i] = history[j] => i = j
    /\ \A i \in 1..Len(history) : history[i] # scene_manager.current_scene

\* C35: establish_story_timeline is all-or-nothing: when it reports failure,
\* the story's timeline and setting and the current scene are as before the
\* call; when it reports success, the current scene is the initial scene it
\* created.
EstablishStoryTimelineIsAllOrNothing ==
    [][Called("establish_story_timeline") =>
          IF result'.success
          THEN /\ current_scene' # None
               /\ current_scene'.location = last_call'.initial_scene_location
               /\ current_scene'.mood = "tense"
          ELSE /\ story_state'.timeline = story_state.timeline
               /\ story_state'.setting = story_state.setting
               /\ current_scene' = current_scene]_vars

\* C36: after any sequence of start_new_scene and update_scene_context calls,
\* the active scene's present_characters is not empty, holds no id twice and
\* holds only ids of the entity registry.
PresentCharactersAreWellFormed ==
    current_scene # None =>
        LET present == current_scene.present_characters IN
        /\ present # << >>
        /\ \A i, j \in 1..Len(present) : present[i] = present[j] => i = j
        /\ \A i \in 1..Len(present) : present[i] \in Registry

TurnsAreRoundRobin ==
    LET given == scene_manager.turns_given
        order == scene_manager.turn_order
        n == Len(order)
    IN  /\ \A i \in 1..Len(given) : given[i] = order[((i - 1) % n) + 1]
        /\ \A i \in 1..Len(given) : i + n - 1 <= Len(given) =>
              \A c \in 1..n :
                  Cardinality({k \in i..(i + n - 1) : given[k] = order[c]}) = 1

\* two characters have had their second turn each
SecondRoundWitness ==
    /\ Len(scene_manager.turn_order) = 2
    /\ Len(scene_manager.turns_given) = 4
    /\ last_call.op = "manage_character_turns"

\* C39: an active scene stops being the active scene only through
\* end_current_scene or transition_scene: no other call, start_new_scene
\* included, replaces a scene that is active (update_scene_context changes
\* the active scene in place and leaves it the active scene).
ActiveSceneLeavesOnlyByEndOrTransition ==
    [][current_scene # None /\ current_scene' # current_scene
          => last_call'.op \in {"end_current_scene", "transition_scene",
                                "update_scene_context"}]_vars

\* the place of a beat in beat_order
BeatPosition(beat) == IndexOf(beat_order, beat)

\* C40: over any sequence of create_story_beat and advance_story_beat calls
\* on the StoryStructure tracker, the position of current_beat in beat_order
\* never decreases and increases by at most one per call; it increases only
\* when the completion recorded for the current beat is at least that beat's
\* threshold; it stays at "resolution" once reached; and advance_story_beat
\* on a beat name never created returns failure and leaves current_beat and
\* all completions unchanged.
TrackerMovesForwardOneBeatAtATime ==
    [][LET before == story_structure.current_beat
           after == story_structure'.current_beat
       IN  /\ BeatPosition(after) >= BeatPosition(before)
           /\ BeatPosition(after) <= BeatPosition(before) + 1
           /\ BeatPosition(after) > BeatPosition(before)
              => /\ before \in DOMAIN story_structure'.beats
                 /\ story_structure'.beats[before] >= completion_thresholds(before)
           /\ before = "resolution" => after = "resolution"
           /\ Called("structure_advance_story_beat")
              /\ last_call'.beat_name \notin DOMAIN story_structure.beats
              => /\ ~ result'.success
                 /\ story_structure' = story_structure]_vars

\* the tracker has reached "resolution" and that beat was then completed
ResolutionReachedWitness ==
    /\ story_structure.current_beat = "resolution"
    /\ "resolution" \in DOMAIN story_structure.beats
    /\ story_structure.beats["resolution"] = 100
    /\ last_call.op = "structure_advance_story_beat"
    /\ last_call.beat_name = "resolution"


====
